---------------------------- MODULE Spec2Model ----------------------------
(***************************************************************************)
(* Model of the yars YAML formatter (src/src/lib.rs): the canonicalizer    *)
(* sort_value, the emitter (struct Formatter) with its scalar              *)
(* classification predicates, and the entry points format_yaml_string and  *)
(* format_yaml_dict.                                                       *)
(*                                                                         *)
(* Text is a sequence of characters.  A character is a one-character       *)
(* string; the characters that cannot be written in a TLA+ string carry a  *)
(* name ("LF", "CR", "TAB", "SOH", "DEL", ...).  CharTable gives the code   *)
(* point of every character of the model's alphabet.                       *)
(***************************************************************************)
EXTENDS Integers, Sequences, FiniteSets, TLC

VARIABLES
  doc,        \* the Value tree of the run (what the source text denotes)
  lead,       \* the text before the document in the source text
  source,     \* the source text given to format_yaml_string
  pc,         \* the operations run so far
  sorted,     \* sort_value(doc)
  emitted,    \* emit_yaml(sorted)
  reparsed,   \* the emitted text read back by the parser
  first,      \* format_yaml_string(source)
  second,     \* format_yaml_string of the first result's text
  dictOut,    \* format_yaml_dict(doc)
  emitRoots,  \* the roots the entry points handed to emit_yaml
  sortKeys,   \* key_sort_key of each key of doc
  resorted,   \* sort_value(sorted)
  fs,         \* the files: the file of each path
  calls,      \* the files processed so far, each with its result and its file before and after
  outcome     \* what the last file operation returned

vars ==
  <<doc, lead, source, pc, sorted, emitted, reparsed, first, second, dictOut, emitRoots,
    sortKeys, resorted, fs, calls, outcome>>

fileVars == <<fs, calls, outcome>>

textVars ==
  <<doc, lead, source, sorted, emitted, reparsed, first, second, dictOut, emitRoots,
    sortKeys, resorted>>

treeVars == <<sortKeys, resorted>>

(***************************************************************************)
(* Characters                                                              *)
(***************************************************************************)
CharTable ==
  << <<"SOH", 1>>, <<"BS", 8>>, <<"TAB", 9>>, <<"LF", 10>>, <<"FF", 12>>, <<"CR", 13>>,
     <<"US", 31>>, <<" ", 32>>, <<"!", 33>>, <<"\"", 34>>, <<"#", 35>>, <<"$", 36>>,
     <<"%", 37>>, <<"&", 38>>, <<"'", 39>>, <<"(", 40>>, <<")", 41>>, <<"*", 42>>,
     <<"+", 43>>, <<",", 44>>, <<"-", 45>>, <<".", 46>>, <<"/", 47>>, <<"0", 48>>,
     <<"1", 49>>, <<"2", 50>>, <<"3", 51>>, <<"4", 52>>, <<"5", 53>>, <<"6", 54>>,
     <<"7", 55>>, <<"8", 56>>, <<"9", 57>>, <<":", 58>>, <<";", 59>>, <<"<", 60>>,
     <<"=", 61>>, <<">", 62>>, <<"?", 63>>, <<"@", 64>>, <<"A", 65>>, <<"B", 66>>,
     <<"C", 67>>, <<"D", 68>>, <<"E", 69>>, <<"F", 70>>, <<"G", 71>>, <<"H", 72>>,
     <<"I", 73>>, <<"J", 74>>, <<"K", 75>>, <<"L", 76>>, <<"M", 77>>, <<"N", 78>>,
     <<"O", 79>>, <<"P", 80>>, <<"Q", 81>>, <<"R", 82>>, <<"S", 83>>, <<"T", 84>>,
     <<"U", 85>>, <<"V", 86>>, <<"W", 87>>, <<"X", 88>>, <<"Y", 89>>, <<"Z", 90>>,
     <<"[", 91>>, <<"\\", 92>>, <<"]", 93>>, <<"^", 94>>, <<"_", 95>>, <<"GRAVE", 96>>,
     <<"a", 97>>, <<"b", 98>>, <<"c", 99>>, <<"d", 100>>, <<"e", 101>>, <<"f", 102>>,
     <<"g", 103>>, <<"h", 104>>, <<"i", 105>>, <<"j", 106>>, <<"k", 107>>, <<"l", 108>>,
     <<"m", 109>>, <<"n", 110>>, <<"o", 111>>, <<"p", 112>>, <<"q", 113>>, <<"r", 114>>,
     <<"s", 115>>, <<"t", 116>>, <<"u", 117>>, <<"v", 118>>, <<"w", 119>>, <<"x", 120>>,
     <<"y", 121>>, <<"z", 122>>, <<"{", 123>>, <<"|", 124>>, <<"}", 125>>, <<"~", 126>>,
     <<"DEL", 127>>, <<"PAD", 128>> >>

Alphabet == {CharTable[i][1] : i \in 1..Len(CharTable)}

CodePoint ==
  [ch \in Alphabet |->
     LET i == CHOOSE j \in 1..Len(CharTable) : CharTable[j][1] = ch IN CharTable[i][2]]

\* The code point of a character.
CodeOf(ch) == CodePoint[ch]

\* The character with a given code point.
CharOf(cp) == CharTable[CHOOSE i \in 1..Len(CharTable) : CharTable[i][2] = cp][1]

Range(s) == {s[i] : i \in 1..Len(s)}

Contains(text, ch) == \E i \in 1..Len(text) : text[i] = ch

\* u8::is_ascii_digit / char::is_ascii_digit
is_ascii_digit(ch) == CodeOf(ch) \in 48..57

\* char::is_whitespace (the Unicode White_Space code points below U+0100)
is_whitespace(ch) == CodeOf(ch) \in (9..13) \cup {32, 133, 160}

\* u8::to_ascii_lowercase, per character
to_ascii_lowercase_char(ch) ==
  IF CodeOf(ch) \in 65..90 THEN CharOf(CodeOf(ch) + 32) ELSE ch

to_ascii_lowercase(text) == [i \in 1..Len(text) |-> to_ascii_lowercase_char(text[i])]

\* str::cmp: lexicographic order of the code points (a < b)
RECURSIVE StrLess(_, _)
StrLess(a, b) ==
  IF b = <<>> THEN FALSE
  ELSE IF a = <<>> THEN TRUE
  ELSE IF CodeOf(a[1]) # CodeOf(b[1]) THEN CodeOf(a[1]) < CodeOf(b[1])
  ELSE StrLess(Tail(a), Tail(b))

StrLeq(a, b) == a = b \/ StrLess(a, b)

(***************************************************************************)
(* Scalar classification predicates                                        *)
(***************************************************************************)
is_disallowed_control(ch) ==
  \/ (CodeOf(ch) < 32 /\ ch \notin {"TAB", "LF", "CR"})
  \/ CodeOf(ch) = 127
  \/ CodeOf(ch) \in 128..159

\* The block test with its first check only.
literal_block_for_any_newline(text) == Contains(text, "LF")

should_use_literal_block(text) ==
  IF ~Contains(text, "LF") THEN FALSE
  ELSE IF \E i \in 1..Len(text) : is_disallowed_control(text[i]) THEN FALSE
  ELSE IF \/ (Len(text) > 0 /\ is_whitespace(text[1]))
          \/ (Len(text) > 0 /\ is_whitespace(text[Len(text)]))
       THEN FALSE
  ELSE TRUE

ReservedWords ==
  { <<"t","r","u","e">>, <<"f","a","l","s","e">>, <<"n","u","l","l">>, <<"~">>,
    <<"y","e","s">>, <<"n","o">>, <<"o","n">>, <<"o","f","f">> }

\* The reserved-word test without to_ascii_lowercase.
is_reserved_keyword_case_sensitive(text) == text \in ReservedWords

is_reserved_keyword(text) == to_ascii_lowercase(text) \in ReservedWords

\* str::trim_start_matches('-')
RECURSIVE trim_start_dashes(_)
trim_start_dashes(text) ==
  IF text # <<>> /\ text[1] = "-" THEN trim_start_dashes(Tail(text)) ELSE text

\* The scanning loop of looks_like_number from index idx on (1-based).
RECURSIVE number_scan(_, _, _, _, _)
number_scan(trimmed, idx, has_decimal, has_exp, has_digits) ==
  IF idx > Len(trimmed) THEN has_digits
  ELSE LET ch == trimmed[idx] IN
    IF is_ascii_digit(ch)
      THEN number_scan(trimmed, idx + 1, has_decimal, has_exp, TRUE)
    ELSE IF ch = "." /\ ~has_decimal /\ ~has_exp
      THEN number_scan(trimmed, idx + 1, TRUE, has_exp, has_digits)
    ELSE IF ch \in {"e", "E"} /\ ~has_exp /\ has_digits
      THEN number_scan(trimmed, idx + 1, has_decimal, TRUE, FALSE)
    ELSE IF ch \in {"+", "-"} /\ has_exp /\ idx > 1 /\ trimmed[idx - 1] = "e"
      THEN number_scan(trimmed, idx + 1, has_decimal, has_exp, has_digits)
    ELSE FALSE

looks_like_number(text) ==
  IF text = <<>> THEN FALSE
  ELSE LET trimmed == trim_start_dashes(text) IN
    IF trimmed = <<>> THEN FALSE
    ELSE IF \A i \in 1..Len(trimmed) : is_ascii_digit(trimmed[i]) THEN TRUE
    ELSE number_scan(trimmed, 1, FALSE, FALSE, FALSE)

\* The characters an unquoted string may consist of.
is_plain_char(ch) ==
  \/ CodeOf(ch) \in 97..122
  \/ CodeOf(ch) \in 65..90
  \/ CodeOf(ch) \in 48..57
  \/ ch \in {"_", "-", ".", "/"}

is_plain_string(text) ==
  IF \/ text = <<>>
     \/ is_whitespace(text[1])
     \/ is_whitespace(text[Len(text)])
     \/ text[1] = "-"
     \/ Contains(text, "LF")
     \/ is_reserved_keyword(text)
     \/ looks_like_number(text)
  THEN FALSE
  ELSE \A i \in 1..Len(text) : is_plain_char(text[i])

is_plain_key(text) == is_plain_string(text)

(***************************************************************************)
(* serde_yaml::Value                                                       *)
(*   Null, Bool(b), Number, String(text), Sequence(items),                 *)
(*   Mapping(entries: insertion-ordered (key, value) pairs),               *)
(*   Tagged(tag, inner).                                                   *)
(* A Number is an integer (float = FALSE, k = 0, value d), a finite float  *)
(* of value d * 10^k (d without trailing decimal zeros), or one of the     *)
(* special floats (special = "inf", "-inf", "nan").                        *)
(***************************************************************************)
Null == [kind |-> "Null"]
Bool(b) == [kind |-> "Bool", b |-> b]
Integer(n) == [kind |-> "Number", float |-> FALSE, d |-> n, k |-> 0]
FloatNum(d, k) == [kind |-> "Number", float |-> TRUE, d |-> d, k |-> k]
Str(text) == [kind |-> "String", text |-> text]
Sequence(items) == [kind |-> "Sequence", items |-> items]
Mapping(entries) == [kind |-> "Mapping", entries |-> entries]
Tagged(tag, inner) == [kind |-> "Tagged", tag |-> tag, inner |-> inner]

\* Decimal digits of a natural number.
RECURSIVE Digits(_)
Digits(n) == IF n < 10 THEN <<CharOf(48 + n)>> ELSE Digits(n \div 10) \o <<CharOf(48 + (n % 10))>>

IntText(n) == IF n < 0 THEN <<"-">> \o Digits(-n) ELSE Digits(n)

Zeros(n) == [i \in 1..n |-> "0"]

\* ryu's format_finite of a positive float of decimal digits `digits` and of
\* value digits * 10^k: the shortest form that reads back.
format_finite(digits, k) ==
  IF 0 <= k /\ Len(digits) + k <= 16 THEN digits \o Zeros(k) \o <<".", "0">>
  ELSE IF 0 < Len(digits) + k /\ Len(digits) + k <= 16
    THEN SubSeq(digits, 1, Len(digits) + k) \o <<".">>
           \o SubSeq(digits, Len(digits) + k + 1, Len(digits))
  ELSE IF -5 < Len(digits) + k /\ Len(digits) + k <= 0
    THEN <<"0", ".">> \o Zeros(-(Len(digits) + k)) \o digits
  ELSE IF Len(digits) = 1 THEN digits \o <<"e">> \o IntText(Len(digits) + k - 1)
  ELSE <<digits[1], ".">> \o SubSeq(digits, 2, Len(digits)) \o <<"e">>
         \o IntText(Len(digits) + k - 1)

\* Display of serde_yaml::Number ("{num}"): an integer as its decimal digits, a
\* float as .inf, -.inf, .nan or in ryu's form.
number_to_string(num) ==
  IF ~num.float THEN IntText(num.d)
  ELSE IF "special" \in DOMAIN num
    THEN (CASE num.special = "inf" -> <<".","i","n","f">>
            [] num.special = "-inf" -> <<"-",".","i","n","f">>
            [] num.special = "nan" -> <<".","n","a","n">>)
  ELSE IF num.d = 0 THEN <<"0", ".", "0">>
  ELSE IF num.d < 0 THEN <<"-">> \o format_finite(Digits(-num.d), num.k)
  ELSE format_finite(Digits(num.d), num.k)

(***************************************************************************)
(* Normalisation helpers                                                   *)
(***************************************************************************)
\* str::trim_start
RECURSIVE trim_start(_)
trim_start(text) ==
  IF text # <<>> /\ is_whitespace(text[1]) THEN trim_start(Tail(text)) ELSE text

\* str::trim_end
RECURSIVE trim_end(_)
trim_end(text) ==
  IF text # <<>> /\ is_whitespace(text[Len(text)])
    THEN trim_end(SubSeq(text, 1, Len(text) - 1)) ELSE text

starts_with(text, prefix) ==
  Len(text) >= Len(prefix) /\ SubSeq(text, 1, Len(prefix)) = prefix

ends_with(text, suffix) ==
  Len(text) >= Len(suffix) /\ SubSeq(text, Len(text) - Len(suffix) + 1, Len(text)) = suffix

DropFirst(text, n) == SubSeq(text, n + 1, Len(text))

\* The marker stripped only when a line feed follows it.
strip_marker_line_only(input) ==
  IF starts_with(trim_start(input), <<"-", "-", "-", "LF">>) THEN DropFirst(trim_start(input), 4)
  ELSE trim_start(input)

strip_leading_marker(input) ==
  LET trimmed == trim_start(input) IN
    IF starts_with(trimmed, <<"-", "-", "-", "LF">>) THEN DropFirst(trimmed, 4)
    ELSE IF starts_with(trimmed, <<"-", "-", "-">>) THEN DropFirst(trimmed, 3)
    ELSE trimmed

\* Mapping::insert: a new key is appended, an existing key keeps its place and
\* takes the new value.
mapping_insert(entries, key, val) ==
  IF \E i \in 1..Len(entries) : entries[i][1] = key
    THEN [i \in 1..Len(entries) |->
            IF entries[i][1] = key THEN <<key, val>> ELSE entries[i]]
    ELSE Append(entries, <<key, val>>)

\* The triples left in their input order (no sort_by).
keep_input_order(triples) == triples

\* A sort that places each triple before the earlier triples of the same sort
\* key.
RECURSIVE sort_by_key_unstable(_)
sort_by_key_unstable(triples) ==
  IF Len(triples) <= 1 THEN triples
  ELSE LET n == Len(triples)
           init == sort_by_key_unstable(SubSeq(triples, 1, n - 1))
           last == triples[n]
           pos == Cardinality({i \in 1..Len(init) : StrLess(init[i][1], last[1])})
       IN SubSeq(init, 1, pos) \o <<last>> \o SubSeq(init, pos + 1, Len(init))

\* slice::sort_by(|a, b| a.0.cmp(&b.0)) on (sort key, key, value) triples: a
\* stable sort, each triple placed after every earlier triple whose sort key
\* is not greater.
RECURSIVE sort_by_key(_)
sort_by_key(triples) ==
  IF Len(triples) <= 1 THEN triples
  ELSE LET n == Len(triples)
           init == sort_by_key(SubSeq(triples, 1, n - 1))
           last == triples[n]
           pos == Cardinality({i \in 1..Len(init) : StrLeq(init[i][1], last[1])})
       IN SubSeq(init, 1, pos) \o <<last>> \o SubSeq(init, pos + 1, Len(init))

\* The loop inserting one entry only for each sort key.
RECURSIVE insert_distinct_sort_keys(_, _)
insert_distinct_sort_keys(acc, triples) ==
  IF triples = <<>> THEN acc
  ELSE IF Len(triples) >= 2 /\ triples[1][1] = triples[2][1]
    THEN insert_distinct_sort_keys(acc, Tail(triples))
  ELSE insert_distinct_sort_keys(mapping_insert(acc, triples[1][2], triples[1][3]), Tail(triples))

RECURSIVE insert_all(_, _)
insert_all(acc, triples) ==
  IF triples = <<>> THEN acc
  ELSE insert_all(mapping_insert(acc, triples[1][2], triples[1][3]), Tail(triples))

\* serde_yaml::to_string of a scalar (the scalars the model hands to it: null,
\* booleans, numbers, the strings it writes plain, and the strings true, false
\* and null, which it writes in single quotes).
serde_scalar_text(value) ==
  CASE value.kind = "Null" -> <<"n","u","l","l">>
    [] value.kind = "Bool" -> IF value.b THEN <<"t","r","u","e">> ELSE <<"f","a","l","s","e">>
    [] value.kind = "Number" -> number_to_string(value)
    [] value.kind = "String" /\ is_plain_string(value.text) /\ ~Contains(value.text, "-") ->
         value.text
    [] value.kind = "String"
         /\ value.text \in {<<"t","r","u","e">>, <<"f","a","l","s","e">>, <<"n","u","l","l">>} ->
         <<"'">> \o value.text \o <<"'">>

\* Each scalar between its prefix and its suffix.
RECURSIVE serde_lines(_, _, _)
serde_lines(prefixes, scalars, suffixes) ==
  IF scalars = <<>> THEN <<>>
  ELSE prefixes[1] \o serde_scalar_text(scalars[1]) \o suffixes[1]
         \o serde_lines(Tail(prefixes), Tail(scalars), Tail(suffixes))

\* serde_yaml::to_string of a scalar, or of a collection of scalars in block
\* style: a line per scalar, per element (`- e`) or per entry (`k: v`).
serde_yaml_to_string(value) ==
  CASE value.kind = "Sequence" /\ value.items = <<>> -> <<"[", "]", "LF">>
    [] value.kind = "Mapping" /\ value.entries = <<>> -> <<"{", "}", "LF">>
    [] OTHER ->
         serde_lines(
           CASE value.kind = "Sequence" -> [i \in 1..Len(value.items) |-> <<"-", " ">>]
             [] value.kind = "Mapping" -> [i \in 1..(2 * Len(value.entries)) |-> <<>>]
             [] OTHER -> <<(<<>>)>>,
           CASE value.kind = "Sequence" -> value.items
             [] value.kind = "Mapping" ->
                  [i \in 1..(2 * Len(value.entries)) |-> value.entries[(i + 1) \div 2][2 - (i % 2)]]
             [] OTHER -> <<value>>,
           CASE value.kind = "Sequence" -> [i \in 1..Len(value.items) |-> <<"LF">>]
             [] value.kind = "Mapping" ->
                  [i \in 1..(2 * Len(value.entries)) |->
                     IF i % 2 = 1 THEN <<":", " ">> ELSE <<"LF">>]
             [] OTHER -> <<(<<"LF">>)>>)

\* str::replace('\n', " ")
replace_newlines(text) == [i \in 1..Len(text) |-> IF text[i] = "LF" THEN " " ELSE text[i]]

\* key_sort_key giving a string the text serde_yaml writes for it.
RECURSIVE key_sort_key_of_written_text(_)
key_sort_key_of_written_text(value) ==
  CASE value.kind = "Null" -> <<"n","u","l","l">>
    [] value.kind = "Bool" -> IF value.b THEN <<"t","r","u","e">> ELSE <<"f","a","l","s","e">>
    [] value.kind = "Number" -> number_to_string(value)
    [] value.kind = "String" -> <<"'">> \o value.text \o <<"'">>
    [] value.kind = "Tagged" -> value.tag \o <<":">> \o key_sort_key_of_written_text(value.inner)
    [] OTHER -> trim_end(trim_start(replace_newlines(serde_yaml_to_string(value))))

RECURSIVE key_sort_key(_)
key_sort_key(value) ==
  CASE value.kind = "Null" -> <<"n","u","l","l">>
    [] value.kind = "Bool" -> IF value.b THEN <<"t","r","u","e">> ELSE <<"f","a","l","s","e">>
    [] value.kind = "Number" -> number_to_string(value)
    [] value.kind = "String" -> value.text
    [] value.kind = "Tagged" -> value.tag \o <<":">> \o key_sort_key(value.inner)
    [] OTHER -> trim_end(trim_start(replace_newlines(serde_yaml_to_string(value))))

\* sort_value going into the inner value of a Tagged too.
RECURSIVE sort_value_through_tags(_)
sort_value_through_tags(value) ==
  CASE value.kind = "Mapping" ->
         LET entries == [i \in 1..Len(value.entries) |->
                           << key_sort_key(value.entries[i][1]),
                              value.entries[i][1],
                              sort_value_through_tags(value.entries[i][2]) >>]
         IN Mapping(insert_all(<<>>, sort_by_key(entries)))
    [] value.kind = "Sequence" ->
         Sequence([i \in 1..Len(value.items) |-> sort_value_through_tags(value.items[i])])
    [] value.kind = "Tagged" -> Tagged(value.tag, sort_value_through_tags(value.inner))
    [] OTHER -> value

RECURSIVE sort_value(_)
sort_value(value) ==
  CASE value.kind = "Mapping" ->
         LET entries == [i \in 1..Len(value.entries) |->
                           << key_sort_key(value.entries[i][1]),
                              value.entries[i][1],
                              sort_value(value.entries[i][2]) >>]
         IN Mapping(insert_all(<<>>, sort_by_key(entries)))
    [] value.kind = "Sequence" ->
         Sequence([i \in 1..Len(value.items) |-> sort_value(value.items[i])])
    [] OTHER -> value

(***************************************************************************)
(* Emission.  Each write_* operator is the text the method appends to      *)
(* Formatter::buf.  The Err results of the methods come only from the text *)
(* encoders (serde_json::to_string of a str, write! into a String), which  *)
(* do not fail, so every write succeeds.                                   *)
(***************************************************************************)
spaces(count) == [i \in 1..count |-> " "]

write_indentation(indent) == spaces(indent)

\* str::split('\n')
RECURSIVE split_lines(_)
split_lines(text) ==
  IF ~Contains(text, "LF") THEN <<text>>
  ELSE LET i == CHOOSE j \in 1..Len(text) :
                  text[j] = "LF" /\ \A h \in 1..(j - 1) : text[h] # "LF"
       IN <<SubSeq(text, 1, i - 1)>> \o split_lines(DropFirst(text, i))

RECURSIVE join_block_lines(_, _)
join_block_lines(lines, indent_str) ==
  IF Len(lines) = 1 THEN indent_str \o lines[1]
  ELSE indent_str \o lines[1] \o <<"LF">> \o join_block_lines(Tail(lines), indent_str)

write_literal_block(text, indent) == join_block_lines(split_lines(text), spaces(indent))

HexDigits == <<"0","1","2","3","4","5","6","7","8","9","a","b","c","d","e","f">>

\* serde_json's escape of one character of a string.
json_escape_char(ch) ==
  CASE ch = "\"" -> <<"\\", "\"">>
    [] ch = "\\" -> <<"\\", "\\">>
    [] ch = "BS" -> <<"\\", "b">>
    [] ch = "FF" -> <<"\\", "f">>
    [] ch = "LF" -> <<"\\", "n">>
    [] ch = "CR" -> <<"\\", "r">>
    [] ch = "TAB" -> <<"\\", "t">>
    [] OTHER ->
         IF CodeOf(ch) < 32
           THEN <<"\\", "u", "0", "0",
                  HexDigits[(CodeOf(ch) \div 16) + 1], HexDigits[(CodeOf(ch) % 16) + 1]>>
           ELSE <<ch>>

RECURSIVE json_escape(_)
json_escape(text) ==
  IF text = <<>> THEN <<>> ELSE json_escape_char(text[1]) \o json_escape(Tail(text))

\* serde_json::to_string(text)
serde_json_to_string(text) == <<"\"">> \o json_escape(text) \o <<"\"">>

write_inline_string(text) ==
  IF is_plain_string(text) THEN text ELSE serde_json_to_string(text)

\* str::trim_end_matches('\n')
RECURSIVE trim_end_newlines(_)
trim_end_newlines(text) ==
  IF text # <<>> /\ text[Len(text)] = "LF"
    THEN trim_end_newlines(SubSeq(text, 1, Len(text) - 1)) ELSE text

value_to_inline_string(value) ==
  IF value.kind = "String" THEN value.text
  ELSE trim_end_newlines(serde_yaml_to_string(value))

\* self.method(value, indent, position): the call of a Formatter method from a
\* Formatter method.
RECURSIVE Formatter(_, _, _, _)

\* write_key writing a key as values are written: a literal block where
\* should_use_literal_block holds.
write_key_as_value(key) ==
  CASE key.kind = "String" ->
         IF should_use_literal_block(key.text)
           THEN <<"|", "-", "LF">> \o write_literal_block(key.text, 2)
           ELSE IF is_plain_key(key.text) THEN key.text ELSE serde_json_to_string(key.text)
    [] key.kind = "Number" -> number_to_string(key)
    [] key.kind = "Bool" -> IF key.b THEN <<"t","r","u","e">> ELSE <<"f","a","l","s","e">>
    [] key.kind = "Null" -> <<"n","u","l","l">>
    [] key.kind = "Tagged" ->
         key.tag \o <<" ">>
           \o Formatter("write_inline_string", value_to_inline_string(key.inner), 0, "Inline")
    [] OTHER -> trim_end_newlines(serde_yaml_to_string(key))

write_key(key) ==
  CASE key.kind = "String" ->
         IF is_plain_key(key.text) THEN key.text ELSE serde_json_to_string(key.text)
    [] key.kind = "Number" -> number_to_string(key)
    [] key.kind = "Bool" -> IF key.b THEN <<"t","r","u","e">> ELSE <<"f","a","l","s","e">>
    [] key.kind = "Null" -> <<"n","u","l","l">>
    [] key.kind = "Tagged" ->
         key.tag \o <<" ">>
           \o Formatter("write_inline_string", value_to_inline_string(key.inner), 0, "Inline")
    [] OTHER -> trim_end_newlines(serde_yaml_to_string(key))

write_scalar(value) ==
  CASE value.kind = "Null" -> <<"n","u","l","l">>
    [] value.kind = "Bool" -> IF value.b THEN <<"t","r","u","e">> ELSE <<"f","a","l","s","e">>
    [] value.kind = "Number" -> number_to_string(value)
    [] value.kind = "String" -> Formatter("write_inline_string", value.text, 0, "Inline")
    [] value.kind = "Tagged" -> Formatter("write_tagged", value, 0, "Inline")
    [] OTHER -> trim_end_newlines(serde_yaml_to_string(value))

\* The entries of a mapping from the i-th on, each after the first preceded by a
\* line break and the indentation (the `for (key, value) in iter` loops).
RECURSIVE write_entries(_, _, _)
write_entries(entries, i, indent) ==
  IF i > Len(entries) THEN <<>>
  ELSE <<"LF">> \o write_indentation(indent) \o Formatter("write_key", entries[i][1], 0, "Inline") \o <<":">>
         \o Formatter("write_value_after_colon", entries[i][2], indent, "Inline")
         \o write_entries(entries, i + 1, indent)

write_mapping(map, indent) ==
  IF map.entries = <<>> THEN <<"{", "}">>
  ELSE write_indentation(indent) \o Formatter("write_key", map.entries[1][1], 0, "Inline") \o <<":">>
         \o Formatter("write_value_after_colon", map.entries[1][2], indent, "Inline")
         \o write_entries(map.entries, 2, indent)

\* The items of a sequence from the i-th on (the `for (idx, item)` loop).
RECURSIVE write_items(_, _, _)
write_items(items, i, indent) ==
  IF i > Len(items) THEN <<>>
  ELSE (IF i > 1 THEN <<"LF">> ELSE <<>>)
         \o write_indentation(indent) \o <<"-">>
         \o Formatter("write_sequence_item", items[i], indent, "Inline")
         \o write_items(items, i + 1, indent)

\* The loop of write_sequence walking the items from the last to the first.
write_sequence_reversed(items, indent) ==
  IF items = <<>> THEN <<"[", "]">>
  ELSE write_items([i \in 1..Len(items) |-> items[Len(items) + 1 - i]], 1, indent)

write_sequence(items, indent) ==
  IF items = <<>> THEN <<"[", "]">> ELSE write_items(items, 1, indent)

write_sequence_item(value, indent) ==
  CASE value.kind = "Mapping" ->
         IF value.entries = <<>> THEN <<" ", "{", "}">>
         ELSE <<" ">> \o Formatter("write_inline_mapping", value, indent + 2, "Inline")
    [] value.kind = "Sequence" ->
         IF value.items = <<>> THEN <<" ", "[", "]">>
         ELSE <<"LF">> \o Formatter("write_sequence", value.items, indent + 2, "Inline")
    [] value.kind = "String" ->
         IF should_use_literal_block(value.text)
           THEN <<" ", "|", "-", "LF">> \o Formatter("write_literal_block", value.text, indent + 2, "Inline")
           ELSE <<" ">> \o Formatter("write_inline_string", value.text, 0, "Inline")
    [] value.kind = "Tagged" -> <<" ">> \o Formatter("write_tagged", value, indent + 2, "Inline")
    [] OTHER -> <<" ">> \o Formatter("write_scalar", value, 0, "Inline")

\* write_inline_mapping writing the later entries one level too shallow.
write_inline_mapping_at_dash(map, indent) ==
  IF map.entries = <<>> THEN <<"{", "}">>
  ELSE Formatter("write_key", map.entries[1][1], 0, "Inline") \o <<":">>
         \o Formatter("write_value_after_colon", map.entries[1][2], indent, "Inline")
         \o write_entries(map.entries, 2, indent - 2)

write_inline_mapping(map, indent) ==
  IF map.entries = <<>> THEN <<"{", "}">>
  ELSE Formatter("write_key", map.entries[1][1], 0, "Inline") \o <<":">>
         \o Formatter("write_value_after_colon", map.entries[1][2], indent, "Inline")
         \o write_entries(map.entries, 2, indent)

\* write_value_after_colon writing a non-empty mapping on the line of its key.
write_value_after_colon_on_key_line(value, indent) ==
  CASE value.kind = "Mapping" ->
         IF value.entries = <<>> THEN <<" ", "{", "}">>
         ELSE <<" ">> \o Formatter("write_inline_mapping", value, indent + 2, "Inline")
    [] value.kind = "Sequence" ->
         IF value.items = <<>> THEN <<" ", "[", "]">>
         ELSE <<"LF">> \o Formatter("write_sequence", value.items, indent + 2, "Inline")
    [] value.kind = "String" ->
         IF should_use_literal_block(value.text)
           THEN <<" ", "|", "-", "LF">> \o Formatter("write_literal_block", value.text, indent + 2, "Inline")
           ELSE <<" ">> \o Formatter("write_inline_string", value.text, 0, "Inline")
    [] value.kind = "Tagged" -> <<" ">> \o Formatter("write_tagged", value, indent + 2, "Inline")
    [] OTHER -> <<" ">> \o Formatter("write_scalar", value, 0, "Inline")

write_value_after_colon(value, indent) ==
  CASE value.kind = "Mapping" ->
         IF value.entries = <<>> THEN <<" ", "{", "}">>
         ELSE <<"LF">> \o Formatter("write_mapping", value, indent + 2, "Inline")
    [] value.kind = "Sequence" ->
         IF value.items = <<>> THEN <<" ", "[", "]">>
         ELSE <<"LF">> \o Formatter("write_sequence", value.items, indent + 2, "Inline")
    [] value.kind = "String" ->
         IF should_use_literal_block(value.text)
           THEN <<" ", "|", "-", "LF">> \o Formatter("write_literal_block", value.text, indent + 2, "Inline")
           ELSE <<" ">> \o Formatter("write_inline_string", value.text, 0, "Inline")
    [] value.kind = "Tagged" -> <<" ">> \o Formatter("write_tagged", value, indent + 2, "Inline")
    [] OTHER -> <<" ">> \o Formatter("write_scalar", value, 0, "Inline")

\* position is "Root" or "Inline" (enum Position).
write_value(value, indent, position) ==
  CASE value.kind = "Mapping" ->
         IF position = "Root" THEN Formatter("write_mapping", value, indent, "Inline")
         ELSE Formatter("write_mapping", value, indent + 2, "Inline")
    [] value.kind = "Sequence" -> Formatter("write_sequence", value.items, indent + 2, "Inline")
    [] value.kind = "String" ->
         IF should_use_literal_block(value.text)
           THEN Formatter("write_literal_block", value.text, indent + 2, "Inline")
           ELSE Formatter("write_inline_string", value.text, 0, "Inline")
    [] value.kind = "Tagged" -> Formatter("write_tagged", value, indent + 2, "Inline")
    [] OTHER -> Formatter("write_scalar", value, 0, "Inline")

write_tagged(tagged, indent) ==
  tagged.tag \o <<" ">> \o Formatter("write_value", tagged.inner, indent, "Inline")

Formatter(method, value, indent, position) ==
  CASE method = "write_mapping" -> write_mapping(value, indent)
    [] method = "write_sequence" -> write_sequence(value, indent)
    [] method = "write_sequence_item" -> write_sequence_item(value, indent)
    [] method = "write_inline_mapping" -> write_inline_mapping(value, indent)
    [] method = "write_value_after_colon" -> write_value_after_colon(value, indent)
    [] method = "write_value" -> write_value(value, indent, position)
    [] method = "write_tagged" -> write_tagged(value, indent)
    [] method = "write_scalar" -> write_scalar(value)
    [] method = "write_key" -> write_key(value)
    [] method = "write_literal_block" -> write_literal_block(value, indent)
    [] method = "write_inline_string" -> write_inline_string(value)

\* write_root writing a sequence root at indentation 0.
write_root_sequence_at_margin(value) ==
  IF value.kind = "Mapping" THEN Formatter("write_mapping", value, 0, "Root")
  ELSE IF value.kind = "Sequence" THEN Formatter("write_sequence", value.items, 0, "Root")
  ELSE Formatter("write_value", value, 0, "Root")

write_root(value) ==
  IF value.kind = "Mapping" THEN Formatter("write_mapping", value, 0, "Root")
  ELSE Formatter("write_value", value, 0, "Root")

\* Formatter::finish
\* finish without the push of the line feed.
finish_as_written(buf) == buf

finish(buf) ==
  IF ~ends_with(buf, <<"LF">>) /\ buf # <<>> THEN buf \o <<"LF">> ELSE buf

\* A Result: Ok(text), or Err(err) with err the YamlFormatError variant.
Ok(text) == [ok |-> TRUE, text |-> text]
Err(err) == [ok |-> FALSE, err |-> err]

\* A Format error that drops the message it is given.
format_error_without_message(message) == [ok |-> FALSE, err |-> "Format", message |-> ""]

\* Err(YamlFormatError::Format(message))
Format(message) == [ok |-> FALSE, err |-> "Format", message |-> message]

emit_yaml(value) == Ok(finish(write_root(value)))

(***************************************************************************)
(* The external parser, serde_yaml::from_str::<Value> (lib.rs line 44;     *)
(* spec section 6: "a conformant YAML text parser").  The model reads the  *)
(* block-style YAML the formatter writes and the source texts of this      *)
(* module: block mappings and sequences, plain and double-quoted scalars,  *)
(* `|-` literal blocks, `{}`, `[]`, tags, blank and comment lines and a    *)
(* document-start line.  Plain scalars are resolved as serde_yaml resolves *)
(* them (YAML 1.2 core schema).  A text outside this subset has no value   *)
(* here (the CASE expressions have no OTHER arm for it).                   *)
(***************************************************************************)
Fail == [ok |-> FALSE]

\* Err(serde_yaml::Error), with the text of its Display.
ParseError(message) == [ok |-> FALSE, message |-> message]

Node(val, next) == [ok |-> TRUE, val |-> val, next |-> next]

\* The reader accepts tab, line feed, carriage return, the printable ASCII
\* characters, U+0085 and the code points from U+00A0 on.
reader_ok(text) ==
  \A i \in 1..Len(text) :
    LET cp == CodeOf(text[i]) IN cp \in {9, 10, 13, 133} \/ cp \in 32..126 \/ cp >= 160

\* The text cut at its line breaks (LF, CR, CR LF).
RECURSIVE break_lines(_)
break_lines(text) ==
  IF ~(Contains(text, "LF") \/ Contains(text, "CR")) THEN <<text>>
  ELSE LET i == CHOOSE j \in 1..Len(text) :
                  /\ text[j] \in {"LF", "CR"}
                  /\ \A h \in 1..(j - 1) : text[h] \notin {"LF", "CR"}
           n == IF text[i] = "CR" /\ i < Len(text) /\ text[i + 1] = "LF" THEN i + 1 ELSE i
       IN <<SubSeq(text, 1, i - 1)>> \o break_lines(DropFirst(text, n))

RECURSIVE leading_spaces(_)
leading_spaces(text) ==
  IF text # <<>> /\ text[1] = " " THEN 1 + leading_spaces(Tail(text)) ELSE 0

\* A line: its indentation (leading spaces) and the text after it.
Line(raw) == [ind |-> leading_spaces(raw), txt |-> DropFirst(raw, leading_spaces(raw))]

to_lines(text) ==
  LET raw == break_lines(text) IN [i \in 1..Len(raw) |-> Line(raw[i])]

\* Trailing spaces and tabs of a line are not content.
RECURSIVE strip_trailing_blanks(_)
strip_trailing_blanks(text) ==
  IF text # <<>> /\ text[Len(text)] \in {" ", "TAB"}
    THEN strip_trailing_blanks(SubSeq(text, 1, Len(text) - 1)) ELSE text

is_blank_line(line) == strip_trailing_blanks(line.txt) = <<>>

is_comment_line(line) == line.txt # <<>> /\ line.txt[1] = "#"

\* The first line from i on that is neither blank nor a comment (Len + 1: none).
RECURSIVE next_content(_, _)
next_content(lines, i) ==
  IF i > Len(lines) THEN i
  ELSE IF is_blank_line(lines[i]) \/ is_comment_line(lines[i]) THEN next_content(lines, i + 1)
  ELSE i

\* ---- plain scalar resolution --------------------------------------------
HexValue(ch) ==
  IF is_ascii_digit(ch) THEN CodeOf(ch) - 48
  ELSE IF CodeOf(ch) \in 97..102 THEN CodeOf(ch) - 87
  ELSE IF CodeOf(ch) \in 65..70 THEN CodeOf(ch) - 55
  ELSE 99

\* from_str_radix on a digit string without sign: -1 when it is not a number
\* of that radix.
RECURSIVE radix_value(_, _, _)
radix_value(text, radix, acc) ==
  IF text = <<>> THEN acc
  ELSE IF HexValue(text[1]) >= radix THEN -1
  ELSE radix_value(Tail(text), radix, acc * radix + HexValue(text[1]))

from_str_radix(text, radix) == IF text = <<>> THEN -1 ELSE radix_value(text, radix, 0)

all_digits(text) == \A i \in 1..Len(text) : is_ascii_digit(text[i])

\* Leading zeros followed by digits are a string (YAML 1.2), not a number.
digits_but_not_number(scalar) ==
  LET s == IF scalar # <<>> /\ scalar[1] \in {"-", "+"} THEN Tail(scalar) ELSE scalar
  IN Len(s) > 1 /\ s[1] = "0" /\ all_digits(Tail(s))

\* The magnitude of an integer literal without its sign (0x, 0o, 0b, decimal);
\* -1 when the text is none.
int_magnitude(text) ==
  IF starts_with(text, <<"0", "x">>) THEN from_str_radix(DropFirst(text, 2), 16)
  ELSE IF starts_with(text, <<"0", "o">>) THEN from_str_radix(DropFirst(text, 2), 8)
  ELSE IF starts_with(text, <<"0", "b">>) THEN from_str_radix(DropFirst(text, 2), 2)
  ELSE IF digits_but_not_number(text) THEN -1
  ELSE from_str_radix(text, 10)

RECURSIVE strip_zeros(_, _)
strip_zeros(d, k) == IF d # 0 /\ d % 10 = 0 THEN strip_zeros(d \div 10, k + 1) ELSE [d |-> d, k |-> k]

\* The value d * 10^k of a decimal literal, d without trailing zeros.
decimal_value(d, k) ==
  IF d = 0 THEN [ok |-> TRUE, d |-> 0, k |-> 0]
  ELSE [ok |-> TRUE, d |-> strip_zeros(d, k).d, k |-> strip_zeros(d, k).k]

\* str::parse::<f64> on an unsigned decimal literal, read from character i on:
\* digits, an optional '.' and digits, an optional exponent (e or E, an
\* optional sign, digits), with a digit before or after the '.'.  part is
\* where the scan is: "int", "frac", "sign" (just after the e) or "exp"; d is
\* the mantissa read so far, of nd digits, frac of them after the '.'; e is
\* the exponent read so far, of ne digits, negative when neg.
RECURSIVE scan_decimal(_, _, _, _, _, _, _, _, _)
scan_decimal(text, i, part, d, nd, frac, neg, e, ne) ==
  IF i > Len(text)
    THEN IF nd = 0 \/ (part \in {"sign", "exp"} /\ ne = 0) THEN [ok |-> FALSE]
         ELSE decimal_value(d, (IF neg THEN -e ELSE e) - frac)
  ELSE IF is_ascii_digit(text[i])
    THEN CASE part = "int" ->
                scan_decimal(text, i + 1, part, d * 10 + CodeOf(text[i]) - 48, nd + 1, frac, neg, e, ne)
           [] part = "frac" ->
                scan_decimal(text, i + 1, part, d * 10 + CodeOf(text[i]) - 48, nd + 1, frac + 1,
                             neg, e, ne)
           [] OTHER ->
                scan_decimal(text, i + 1, "exp", d, nd, frac, neg, e * 10 + CodeOf(text[i]) - 48,
                             ne + 1)
  ELSE IF text[i] = "." /\ part = "int"
    THEN scan_decimal(text, i + 1, "frac", d, nd, frac, neg, e, ne)
  ELSE IF text[i] \in {"e", "E"} /\ part \in {"int", "frac"} /\ nd > 0
    THEN scan_decimal(text, i + 1, "sign", d, nd, frac, neg, e, ne)
  ELSE IF text[i] \in {"+", "-"} /\ part = "sign"
    THEN scan_decimal(text, i + 1, "exp", d, nd, frac, text[i] = "-", e, ne)
  ELSE [ok |-> FALSE]

parse_decimal(text) == scan_decimal(text, 1, "int", 0, 0, 0, FALSE, 0, 0)

Infinity(negative) == [kind |-> "Number", float |-> TRUE, special |-> IF negative THEN "-inf" ELSE "inf"]
NaN == [kind |-> "Number", float |-> TRUE, special |-> "nan"]

\* A scalar without a leading '+'.
unpositive(scalar) == IF scalar # <<>> /\ scalar[1] = "+" THEN Tail(scalar) ELSE scalar

\* A scalar without its sign.
unsigned(scalar) == IF scalar # <<>> /\ scalar[1] = "-" THEN Tail(scalar) ELSE unpositive(scalar)

\* The number a scalar is, of integer magnitude mag (-1: no integer) or of
\* decimal value dec, or the string.
number_or_string(scalar, negative, mag, dec) ==
  IF mag >= 0 THEN Integer(IF negative THEN -mag ELSE mag)
  ELSE IF dec.ok THEN FloatNum(IF negative THEN -dec.d ELSE dec.d, dec.k)
  ELSE Str(scalar)

\* A second sign makes a string.
resolve_number(scalar, text) ==
  IF text # <<>> /\ text[1] \in {"+", "-"} THEN Str(scalar)
  ELSE number_or_string(scalar, scalar[1] = "-", int_magnitude(text),
                        IF digits_but_not_number(scalar) THEN [ok |-> FALSE]
                        ELSE parse_decimal(text))

\* How serde_yaml reads an untagged plain scalar: null, bool, integer, float,
\* and a string otherwise.
resolve_plain(scalar) ==
  CASE scalar \in {<<>>, <<"~">>, <<"n","u","l","l">>, <<"N","u","l","l">>, <<"N","U","L","L">>} ->
         Null
    [] scalar \in {<<"t","r","u","e">>, <<"T","r","u","e">>, <<"T","R","U","E">>} -> Bool(TRUE)
    [] scalar \in {<<"f","a","l","s","e">>, <<"F","a","l","s","e">>, <<"F","A","L","S","E">>} ->
         Bool(FALSE)
    [] unpositive(scalar) \in {<<".","i","n","f">>, <<".","I","n","f">>, <<".","I","N","F">>} ->
         Infinity(FALSE)
    [] scalar \in {<<"-",".","i","n","f">>, <<"-",".","I","n","f">>, <<"-",".","I","N","F">>} ->
         Infinity(TRUE)
    [] scalar \in {<<".","n","a","n">>, <<".","N","a","N">>, <<".","N","A","N">>} -> NaN
    [] OTHER -> resolve_number(scalar, unsigned(scalar))
\* ---- double-quoted scalars ----------------------------------------------
\* The index of the quote that closes a double-quoted scalar, scanning from j
\* (0: none).
RECURSIVE closing_quote(_, _)
closing_quote(txt, j) ==
  IF j > Len(txt) THEN 0
  ELSE IF txt[j] = "\\" THEN closing_quote(txt, j + 2)
  ELSE IF txt[j] = "\"" THEN j
  ELSE closing_quote(txt, j + 1)

\* The content of a double-quoted scalar with its escapes replaced.
RECURSIVE unescape(_)
unescape(body) ==
  IF body = <<>> THEN <<>>
  ELSE IF body[1] # "\\" THEN <<body[1]>> \o unescape(Tail(body))
  ELSE IF body[2] = "u"
    THEN <<CharOf(4096 * HexValue(body[3]) + 256 * HexValue(body[4])
                    + 16 * HexValue(body[5]) + HexValue(body[6]))>>
           \o unescape(DropFirst(body, 6))
  ELSE << CASE body[2] = "\"" -> "\""
            [] body[2] = "\\" -> "\\"
            [] body[2] = "/" -> "/"
            [] body[2] = "b" -> "BS"
            [] body[2] = "f" -> "FF"
            [] body[2] = "n" -> "LF"
            [] body[2] = "r" -> "CR"
            [] body[2] = "t" -> "TAB" >> \o unescape(DropFirst(body, 2))

\* ---- implicit keys --------------------------------------------------------
\* The index of the ':' that ends an implicit key of a line's text (0: the
\* text starts with no key).  A ':' counts when a space or the line end follows.
RECURSIVE plain_colon(_, _)
plain_colon(txt, j) ==
  IF j > Len(txt) THEN 0
  ELSE IF txt[j] = ":" /\ (j = Len(txt) \/ txt[j + 1] = " ") THEN j
  ELSE plain_colon(txt, j + 1)

\* The index of the first space of txt (Len + 1: none).
RECURSIVE first_space(_, _)
first_space(txt, j) ==
  IF j > Len(txt) \/ txt[j] = " " THEN j ELSE first_space(txt, j + 1)

RECURSIVE key_colon(_, _)
key_colon(txt, from) ==
  IF from > Len(txt) THEN 0
  ELSE IF txt[from] = "\"" THEN
    LET q == closing_quote(txt, from + 1)
        c == IF q = 0 THEN 0 ELSE q + 1 + leading_spaces(DropFirst(txt, q))
    IN IF q # 0 /\ c <= Len(txt) /\ txt[c] = ":" /\ (c = Len(txt) \/ txt[c + 1] = " ")
         THEN c ELSE 0
  ELSE IF txt[from] = "!" THEN
    LET s == first_space(txt, from)
    IN key_colon(txt, s + leading_spaces(DropFirst(txt, s - 1)))
  ELSE plain_colon(txt, from)

\* A tag starts a node's text: the tag runs to the first space.
tag_of(content) == SubSeq(content, 1, first_space(content, 1) - 1)

\* The text of a node without its tag and the spaces after the tag.
untagged(content) ==
  IF content # <<>> /\ content[1] = "!"
    THEN DropFirst(content, first_space(content, 1) - 1
                              + leading_spaces(DropFirst(content, first_space(content, 1) - 1)))
    ELSE content

\* The characters a plain scalar of the model's texts does not start with.
Indicators == {"|", "{", "[", "\"", "!", ">", "&", "*", "#", "%", "@", "GRAVE", "'", ","}

\* A scalar written on one line, plain or double-quoted, after an optional tag.
RECURSIVE parse_flat_scalar(_)
parse_flat_scalar(content) ==
  IF content = <<>> THEN Null
  ELSE IF content[1] = "\"" THEN Str(unescape(SubSeq(content, 2, closing_quote(content, 2) - 1)))
  ELSE IF content[1] = "!" THEN Tagged(tag_of(content), parse_flat_scalar(untagged(content)))
  ELSE CASE strip_trailing_blanks(content) = <<"{", "}">> -> Mapping(<<>>)
         [] strip_trailing_blanks(content) = <<"[", "]">> -> Sequence(<<>>)
         [] content[1] \notin Indicators ->
              resolve_plain(strip_trailing_blanks(content))

\* ---- block structure ------------------------------------------------------
is_dash_line(txt) == txt # <<>> /\ txt[1] = "-" /\ (Len(txt) = 1 \/ txt[2] = " ")

has_key(entries, key) == \E i \in 1..Len(entries) : entries[i][1] = key

\* The lines of a literal block from line i on: every line indented by at
\* least b, and every blank line, up to the first less indented content line.
RECURSIVE literal_end(_, _, _)
literal_end(lines, i, b) ==
  IF i > Len(lines) THEN i
  ELSE IF lines[i].txt = <<>> \/ lines[i].ind >= b THEN literal_end(lines, i + 1, b)
  ELSE i

literal_line(line, b) ==
  IF line.txt = <<>> THEN spaces(IF line.ind > b THEN line.ind - b ELSE 0)
  ELSE spaces(line.ind - b) \o line.txt

RECURSIVE join_lines(_)
join_lines(ls) ==
  IF ls = <<>> THEN <<>>
  ELSE IF Len(ls) = 1 THEN ls[1]
  ELSE ls[1] \o <<"LF">> \o join_lines(Tail(ls))

\* The first line from i on that has any text (Len + 1: none).
RECURSIVE next_nonempty(_, _)
next_nonempty(lines, i) ==
  IF i > Len(lines) \/ lines[i].txt # <<>> THEN i ELSE next_nonempty(lines, i + 1)

\* The literal block of lines i to e - 1, its content indented by b.
literal_block(lines, i, b, e) ==
  Node(Str(trim_end_newlines(join_lines([h \in 1..(e - i) |-> literal_line(lines[i + h - 1], b)]))),
       e)

\* j is the first line with text from line i on.
literal_from(lines, i, parent, j) ==
  IF j > Len(lines) \/ lines[j].ind <= parent THEN Node(Str(<<>>), i)
  ELSE literal_block(lines, i, lines[j].ind, literal_end(lines, i, lines[j].ind))

\* A `|-` literal block whose content starts at line i, under a collection of
\* indentation parent: the content's indentation is that of its first line
\* with text, and the final line breaks are stripped.
parse_literal(lines, i, parent) == literal_from(lines, i, parent, next_nonempty(lines, i))

\* The lines that continue a plain scalar of line i (folded into it by single
\* spaces): the following lines with text, indented deeper than parent.
RECURSIVE continuation_end(_, _, _)
continuation_end(lines, i, parent) ==
  IF i <= Len(lines) /\ ~is_blank_line(lines[i]) /\ lines[i].ind > parent
    THEN continuation_end(lines, i + 1, parent) ELSE i

RECURSIVE fold_lines(_, _, _)
fold_lines(lines, i, e) ==
  IF i >= e THEN <<>>
  ELSE <<" ">> \o strip_trailing_blanks(lines[i].txt) \o fold_lines(lines, i + 1, e)

\* parse(rule, content, lines, i, n, acc): the use of a grammar rule by a rule.
RECURSIVE parse(_, _, _, _, _, _)

\* The continuation lines i + 1 to e - 1 hold neither a key nor a comment.
plain_lines(lines, i, e) ==
  \A h \in (i + 1)..(e - 1) : key_colon(lines[h].txt, 1) = 0 /\ ~Contains(lines[h].txt, "#")

\* The plain scalar of line i and its continuation lines, up to line e - 1.
parse_plain(text, lines, i, e) ==
  Node(IF e = i + 1 THEN resolve_plain(text) ELSE Str(text \o fold_lines(lines, i + 1, e)), e)

\* An untagged node that is no block collection, its text (not empty, without
\* trailing blanks) being on line i.
parse_text(text, lines, i, parent) ==
  CASE text = <<"|", "-">> -> parse_literal(lines, i + 1, parent)
    [] text = <<"{", "}">> -> Node(Mapping(<<>>), i + 1)
    [] text = <<"[", "]">> -> Node(Sequence(<<>>), i + 1)
    [] text[1] = "\"" ->
         IF closing_quote(text, 2) = Len(text) THEN Node(parse_flat_scalar(text), i + 1)
         ELSE Fail
    [] /\ text[1] \notin Indicators
       /\ plain_lines(lines, i, continuation_end(lines, i + 1, parent)) ->
         parse_plain(text, lines, i, continuation_end(lines, i + 1, parent))

parse_untagged_inline(content, lines, i, parent) ==
  parse_text(strip_trailing_blanks(content), lines, i, parent)

tagged_node(tag, inner) ==
  IF inner.ok THEN Node(Tagged(tag, inner.val), inner.next) ELSE Fail

\* The node a tag applies to: the rest of the line, or the block node of the
\* following deeper lines (j: the next content line), or the empty scalar.
parse_tagged_inner(rest, lines, i, parent, j) ==
  IF strip_trailing_blanks(rest) # <<>> THEN parse("untagged", rest, lines, i, parent, <<>>)
  ELSE IF j <= Len(lines) /\ lines[j].ind > parent THEN parse("block", <<>>, lines, j, parent, <<>>)
  ELSE Node(Null, i + 1)

\* A node that is no block collection on line i, with its optional tag.
parse_inline(content, lines, i, parent) ==
  IF content[1] # "!" THEN parse("untagged", content, lines, i, parent, <<>>)
  ELSE tagged_node(tag_of(content),
                   parse_tagged_inner(untagged(content), lines, i, parent,
                                      next_content(lines, i + 1)))

\* The block node that starts on content line i; parent is the indentation of
\* the enclosing block collection (-1 at the root).
parse_block(lines, i, parent) ==
  IF is_dash_line(lines[i].txt) THEN parse("seq", <<>>, lines, i, lines[i].ind, <<>>)
  ELSE IF key_colon(lines[i].txt, 1) # 0 THEN parse("map", <<>>, lines, i, lines[i].ind, <<>>)
  ELSE parse("inline", lines[i].txt, lines, i, parent, <<>>)

\* The item of the `-` of line i: content is the text after the dash and its s
\* spaces, j the next content line.  An item on the dash's line is read as a
\* block that starts at the item's column.
seq_item(content, lines, i, n, s, j) ==
  IF strip_trailing_blanks(content) = <<>>
    THEN IF j <= Len(lines) /\ lines[j].ind > n THEN parse("block", <<>>, lines, j, n, <<>>)
         ELSE Node(Null, j)
    ELSE parse("block", <<>>, [lines EXCEPT ![i] = [ind |-> n + 1 + s, txt |-> content]], i, n,
               <<>>)

seq_next(lines, n, acc, item) ==
  IF ~item.ok THEN Fail
  ELSE parse("seq", <<>>, lines, item.next, n, Append(acc, item.val))

seq_entry(lines, i, n, acc, s) ==
  seq_next(lines, n, acc,
           seq_item(DropFirst(lines[i].txt, 1 + s), lines, i, n, s, next_content(lines, i + 1)))

seq_entries_at(lines, i, n, acc) ==
  IF i > Len(lines) \/ lines[i].ind < n \/ (lines[i].ind = n /\ ~is_dash_line(lines[i].txt))
    THEN Node(Sequence(acc), i)
  ELSE IF lines[i].ind > n THEN Fail
  ELSE seq_entry(lines, i, n, acc, leading_spaces(Tail(lines[i].txt)))

\* The entries of a block sequence of indentation n, from line i0 on.
parse_seq_entries(lines, i0, n, acc) == seq_entries_at(lines, next_content(lines, i0), n, acc)

\* The value of the entry of line i: content is the text after the ':' and
\* the spaces that follow it, j the next content line.
map_value(content, lines, i, n, j) ==
  IF strip_trailing_blanks(content) = <<>>
    THEN IF j <= Len(lines) /\ lines[j].ind > n THEN parse("block", <<>>, lines, j, n, <<>>)
         ELSE IF j <= Len(lines) /\ lines[j].ind = n /\ is_dash_line(lines[j].txt)
           THEN parse("seq", <<>>, lines, j, n, <<>>)
         ELSE Node(Null, j)
    ELSE IF is_dash_line(untagged(content)) \/ key_colon(content, 1) # 0 THEN Fail
    ELSE parse("inline", content, lines, i, n, <<>>)

map_next(lines, n, acc, key, value) ==
  IF ~value.ok \/ has_key(acc, key) THEN Fail
  ELSE parse("map", <<>>, lines, value.next, n, Append(acc, <<key, value.val>>))

\* c is the index of the ':' of the key of line i.
map_entry(lines, i, n, acc, c) ==
  map_next(lines, n, acc, parse_flat_scalar(SubSeq(lines[i].txt, 1, c - 1)),
           map_value(DropFirst(lines[i].txt, c + leading_spaces(DropFirst(lines[i].txt, c))),
                     lines, i, n, next_content(lines, i + 1)))

map_entries_at(lines, i, n, acc) ==
  IF i > Len(lines) \/ lines[i].ind < n THEN Node(Mapping(acc), i)
  ELSE IF lines[i].ind > n \/ key_colon(lines[i].txt, 1) = 0 THEN Fail
  ELSE map_entry(lines, i, n, acc, key_colon(lines[i].txt, 1))

\* The entries of a block mapping of indentation n, from line i0 on.
parse_map_entries(lines, i0, n, acc) == map_entries_at(lines, next_content(lines, i0), n, acc)

parse(rule, content, lines, i, n, acc) ==
  CASE rule = "block" -> parse_block(lines, i, n)
    [] rule = "seq" -> parse_seq_entries(lines, i, n, acc)
    [] rule = "map" -> parse_map_entries(lines, i, n, acc)
    [] rule = "inline" -> parse_inline(content, lines, i, n)
    [] rule = "untagged" -> parse_untagged_inline(content, lines, i, n)

from_root(lines, root) ==
  IF root.ok /\ next_content(lines, root.next) > Len(lines) THEN [ok |-> TRUE, val |-> root.val]
  ELSE ParseError("did not find expected node content")

\* i is the first content line of the document.
from_content(lines, i) ==
  IF i > Len(lines) THEN [ok |-> TRUE, val |-> Null]
  ELSE from_root(lines, parse("block", <<>>, lines, i, -1, <<>>))

\* s is the first content line of the text; a `---` line there starts the
\* document.
from_start(lines, s) ==
  from_content(lines,
               IF /\ s <= Len(lines)
                  /\ lines[s].ind = 0
                  /\ strip_trailing_blanks(lines[s].txt) = <<"-", "-", "-">>
                 THEN next_content(lines, s + 1) ELSE s)

from_lines(lines) == from_start(lines, next_content(lines, 1))

\* serde_yaml::from_str::<Value>: Ok(value), or Err(error) for a text that
\* is no YAML document.  A text without content is the null document.
from_str(text) ==
  IF ~reader_ok(text) THEN ParseError("control characters are not allowed")
  ELSE from_lines(to_lines(text))
(***************************************************************************)
(* Entry points                                                            *)
(***************************************************************************)
\* emit_yaml(&sorted): the result, and the root given to the emitter.
emit_run(root) == [result |-> emit_yaml(root), emit_roots |-> <<root>>]

\* The match on the parser's result without the arm for Value::Null: a null
\* root falls to the arm Ok(other).
format_parsed_without_null_arm(input, parsed) ==
  IF ~parsed.ok THEN [result |-> Format(parsed.message), emit_roots |-> <<>>]
  ELSE CASE parsed.val.kind = "Sequence" -> [result |-> Err("TopLevelList"), emit_roots |-> <<>>]
         [] OTHER -> emit_run(sort_value(parsed.val))

\* The match on the parser's result.  The arms Ok(Value::Mapping(map)) and
\* Ok(other) both emit the canonicalized value.
format_parsed(input, parsed) ==
  IF ~parsed.ok THEN [result |-> Format(parsed.message), emit_roots |-> <<>>]
  ELSE CASE parsed.val.kind = "Null" -> [result |-> Ok(input), emit_roots |-> <<>>]
         [] parsed.val.kind = "Sequence" -> [result |-> Err("TopLevelList"), emit_roots |-> <<>>]
         [] OTHER -> emit_run(sort_value(parsed.val))

\* format_yaml_string: its result, and the roots it hands to emit_yaml.
format_yaml_string_run(input) == format_parsed(input, from_str(strip_leading_marker(input)))

format_yaml_string(input) == format_yaml_string_run(input).result

\* describe_value with one word for every kind.
describe_value_without_kind(value) == "value"

describe_value(value) ==
  CASE value.kind = "Null" -> "null"
    [] value.kind = "Bool" -> "bool"
    [] value.kind = "Number" -> "number"
    [] value.kind = "String" -> "string"
    [] value.kind = "Sequence" -> "list"
    [] value.kind = "Mapping" -> "dict"
    [] value.kind = "Tagged" -> "tagged"

\* format_yaml_dict without the arm for Value::Sequence: a sequence root is
\* emitted like a mapping root.
format_yaml_dict_run_without_list_arm(value) ==
  CASE value.kind \in {"Mapping", "Sequence"} -> emit_run(sort_value(value))
    [] value.kind = "Null" -> [result |-> Ok(<<>>), emit_roots |-> <<>>]
    [] OTHER ->
         [result |-> Format(<<"Expected dict, got ", describe_value(value)>>),
          emit_roots |-> <<>>]

\* format_yaml_dict on data that serde_yaml::to_value turns into `value`: its
\* result, and the roots it hands to emit_yaml.
format_yaml_dict_run(value) ==
  CASE value.kind = "Mapping" -> emit_run(sort_value(value))
    [] value.kind = "Null" -> [result |-> Ok(<<>>), emit_roots |-> <<>>]
    [] value.kind = "Sequence" -> [result |-> Err("TopLevelList"), emit_roots |-> <<>>]
    [] OTHER ->
         [result |-> Format(<<"Expected dict, got ", describe_value(value)>>),
          emit_roots |-> <<>>]

\* format_yaml_dict emitting the mapping as it is given, without sort_value.
format_yaml_dict_without_sort(value) ==
  IF value.kind = "Mapping" THEN emit_yaml(value) ELSE format_yaml_dict_run(value).result

format_yaml_dict(value) == format_yaml_dict_run(value).result


(***************************************************************************)
(* Files: format_yaml_file, format_yaml_files and the command line program *)
(* (bin/yars_format.rs).  A file is absent, or has a text and the rights   *)
(* to read and to write it.  What the programs print is left out.          *)
(***************************************************************************)
Absent == [exists |-> FALSE]

File(text, readable, writable) ==
  [exists |-> TRUE, text |-> text, readable |-> readable, writable |-> writable]

\* fs::read_to_string(path): the text, or the io::Error.
read_to_string(files, path) ==
  IF ~files[path].exists THEN [ok |-> FALSE, message |-> "No such file or directory (os error 2)"]
  ELSE IF ~files[path].readable THEN [ok |-> FALSE, message |-> "Permission denied (os error 13)"]
  ELSE [ok |-> TRUE, text |-> files[path].text]

\* fs::write(path, contents) on a file that was read: the files after it, or
\* the io::Error and the files as they were.
fs_write(files, path, contents) ==
  IF files[path].writable THEN [ok |-> TRUE, files |-> [files EXCEPT ![path].text = contents]]
  ELSE [ok |-> FALSE, message |-> "Permission denied (os error 13)", files |-> files]

MissingFile(path) == [ok |-> FALSE, err |-> "MissingFile", path |-> path]

ReadFailure(path, message) ==
  [ok |-> FALSE, err |-> "ReadFailure", path |-> path, message |-> message]

WriteFailure(path, message) ==
  [ok |-> FALSE, err |-> "WriteFailure", path |-> path, message |-> message]

\* Ok(changed)
OkChanged(changed) == [ok |-> TRUE, changed |-> changed]

\* The Display of YamlFormatError (the #[error] attributes), in its parts.
error_to_string(error) ==
  CASE error.err = "Format" -> <<"Error formatting YAML: ", error.message>>
    [] error.err = "TopLevelList" -> <<"Top-level lists are not supported by the YAML formatter.">>
    [] error.err = "MissingFile" -> <<"File not found: ", error.path>>
    [] error.err = "ReadFailure" -> <<"Failed to read ", error.path, ": ", error.message>>
    [] error.err = "WriteFailure" -> <<"Failed to write ", error.path, ": ", error.message>>

\* format_yaml_file writing a changed text in check mode too.
format_yaml_file_writing_in_check_mode(files, path, original, formatted, check_only) ==
  IF ~formatted.ok THEN [result |-> formatted, files |-> files]
  ELSE IF original # formatted.text
    THEN IF fs_write(files, path, formatted.text).ok
           THEN [result |-> OkChanged(TRUE), files |-> fs_write(files, path, formatted.text).files]
           ELSE [result |-> WriteFailure(path, fs_write(files, path, formatted.text).message),
                 files |-> files]
  ELSE [result |-> OkChanged(FALSE), files |-> files]

\* format_yaml_file from `let formatted = format_yaml_string(&original)?` on.
format_yaml_file_formatted(files, path, original, formatted, check_only) ==
  IF ~formatted.ok THEN [result |-> formatted, files |-> files]
  ELSE IF original # formatted.text /\ ~check_only
    THEN IF fs_write(files, path, formatted.text).ok
           THEN [result |-> OkChanged(TRUE), files |-> fs_write(files, path, formatted.text).files]
           ELSE [result |-> WriteFailure(path, fs_write(files, path, formatted.text).message),
                 files |-> files]
  ELSE [result |-> OkChanged(original # formatted.text), files |-> files]

\* format_yaml_file(path, check_only): its result and the files after it.
format_yaml_file(files, path, check_only) ==
  IF ~files[path].exists THEN [result |-> MissingFile(path), files |-> files]
  ELSE IF ~read_to_string(files, path).ok
    THEN [result |-> ReadFailure(path, read_to_string(files, path).message), files |-> files]
  ELSE format_yaml_file_formatted(files, path, files[path].text,
                                  format_yaml_string(files[path].text), check_only)

\* One processed file: its path, the mode, the result and the file before and
\* after.
Call(path, check_only, result, before, after) ==
  [path |-> path, check_only |-> check_only, result |-> result, before |-> before,
   after |-> after]

\* format_yaml_files(paths, check_only): the loop from the i-th path on, with
\* the counters so far; `one` is format_yaml_file of the i-th path.
RECURSIVE format_yaml_files_from(_, _, _, _, _)
format_yaml_files_match(files, one, paths, check_only, i, acc) ==
  format_yaml_files_from(
    one.files, paths, check_only, i + 1,
    [changed |-> IF one.result.ok /\ one.result.changed THEN acc.changed + 1 ELSE acc.changed,
     errors |-> IF one.result.ok THEN acc.errors ELSE acc.errors + 1,
     messages |-> IF one.result.ok THEN acc.messages
                  ELSE Append(acc.messages, error_to_string(one.result)),
     calls |-> Append(acc.calls, Call(paths[i], check_only, one.result, files[paths[i]],
                                      one.files[paths[i]]))])

\* The loop of format_yaml_files ending at the first error.
format_yaml_files_until_error(files, paths, check_only, i, acc) ==
  IF i > Len(paths) \/ acc.errors > 0
    THEN [changed |-> acc.changed, errors |-> acc.errors, messages |-> acc.messages,
          calls |-> acc.calls, files |-> files]
  ELSE format_yaml_files_match(files, format_yaml_file(files, paths[i], check_only), paths,
                               check_only, i, acc)

format_yaml_files_from(files, paths, check_only, i, acc) ==
  IF i > Len(paths)
    THEN [changed |-> acc.changed, errors |-> acc.errors, messages |-> acc.messages,
          calls |-> acc.calls, files |-> files]
  ELSE format_yaml_files_match(files, format_yaml_file(files, paths[i], check_only), paths,
                               check_only, i, acc)

format_yaml_files(files, paths, check_only) ==
  format_yaml_files_from(files, paths, check_only, 1,
                         [changed |-> 0, errors |-> 0, messages |-> <<>>, calls |-> <<>>])

\* process_file of the command line program from `let formatted = ...` on: the
\* outcome (without its count of changed lines) or the error text.
process_file_formatted(files, path, original, formatted, check_only) ==
  IF ~formatted.ok
    THEN [result |-> [ok |-> FALSE, message |-> <<path, ": ">> \o error_to_string(formatted)],
          files |-> files]
  ELSE IF original # formatted.text /\ ~check_only
    THEN IF fs_write(files, path, formatted.text).ok
           THEN [result |-> OkChanged(TRUE), files |-> fs_write(files, path, formatted.text).files]
           ELSE [result |-> [ok |-> FALSE,
                             message |-> <<path, ": Failed to write file: ",
                                           fs_write(files, path, formatted.text).message>>],
                 files |-> files]
  ELSE [result |-> OkChanged(original # formatted.text), files |-> files]

process_file(files, path, check_only) ==
  IF ~read_to_string(files, path).ok
    THEN [result |-> [ok |-> FALSE,
                      message |-> <<path, ": Failed to read file: ",
                                    read_to_string(files, path).message>>],
          files |-> files]
  ELSE process_file_formatted(files, path, files[path].text,
                              format_yaml_string(files[path].text), check_only)

\* The exit code with the check for changes before the check for errors.
exit_code_changes_first(check, changed_count, error_count) ==
  IF check /\ changed_count > 0 THEN 1 ELSE IF error_count > 0 THEN 2 ELSE 0

\* main: the exit code after the loop.
exit_code(check, changed_count, error_count) ==
  IF error_count > 0 THEN 2 ELSE IF check /\ changed_count > 0 THEN 1 ELSE 0

\* main: the loop over cli.files from the i-th file on.
RECURSIVE main_from(_, _, _, _, _)
main_match(files, one, paths, check, i, acc) ==
  main_from(
    one.files, paths, check, i + 1,
    [changed_count |-> IF one.result.ok /\ one.result.changed THEN acc.changed_count + 1
                       ELSE acc.changed_count,
     error_count |-> IF one.result.ok THEN acc.error_count ELSE acc.error_count + 1,
     success_count |-> IF one.result.ok THEN acc.success_count + 1 ELSE acc.success_count,
     calls |-> Append(acc.calls, Call(paths[i], check, one.result, files[paths[i]],
                                      one.files[paths[i]]))])

main_from(files, paths, check, i, acc) ==
  IF i > Len(paths)
    THEN [exit |-> exit_code(check, acc.changed_count, acc.error_count),
          changed_count |-> acc.changed_count, error_count |-> acc.error_count,
          success_count |-> acc.success_count, calls |-> acc.calls, files |-> files]
  ELSE main_match(files, process_file(files, paths[i], check), paths, check, i, acc)

\* main with the command line parsed into cli.check, cli.generate_completions
\* (given or not) and cli.files.
main(files, check, generate_completions, paths) ==
  IF generate_completions
    THEN [exit |-> 0, changed_count |-> 0, error_count |-> 0, success_count |-> 0,
          calls |-> <<>>, files |-> files]
  ELSE main_from(files, paths, check, 1,
                 [changed_count |-> 0, error_count |-> 0, success_count |-> 0, calls |-> <<>>])
(***************************************************************************)
(* The documents the formatter is run on.  A source text is a document     *)
(* written in block style in insertion order, every string double-quoted   *)
(* with JSON escapes (as the texts of the tests are), after a lead: blank  *)
(* text or a document-start marker.                                        *)
(***************************************************************************)
MaxStrLen == 2
MaxEntries == 3
MaxDepth == 2

source_escape_char(ch) ==
  IF CodeOf(ch) >= 127
    THEN <<"\\", "u", "0", "0", HexDigits[(CodeOf(ch) \div 16) + 1], HexDigits[(CodeOf(ch) % 16) + 1]>>
    ELSE json_escape_char(ch)

RECURSIVE source_escape(_)
source_escape(text) ==
  IF text = <<>> THEN <<>> ELSE source_escape_char(text[1]) \o source_escape(Tail(text))

RECURSIVE source_scalar(_)
source_scalar(value) ==
  CASE value.kind = "String" -> <<"\"">> \o source_escape(value.text) \o <<"\"">>
    [] value.kind = "Tagged" -> value.tag \o <<" ">> \o source_scalar(value.inner)
    [] value.kind = "Number" -> number_to_string(value)
    [] value.kind = "Bool" -> IF value.b THEN <<"t","r","u","e">> ELSE <<"f","a","l","s","e">>
    [] value.kind = "Null" -> <<"n","u","l","l">>

RECURSIVE source_after(_, _)
RECURSIVE source_entries(_, _, _)
RECURSIVE source_items(_, _, _)

source_entries(entries, i, indent) ==
  IF i > Len(entries) THEN <<>>
  ELSE (IF i > 1 THEN <<"LF">> ELSE <<>>)
         \o spaces(indent) \o source_scalar(entries[i][1]) \o <<":">>
         \o source_after(entries[i][2], indent)
         \o source_entries(entries, i + 1, indent)

source_items(items, i, indent) ==
  IF i > Len(items) THEN <<>>
  ELSE (IF i > 1 THEN <<"LF">> ELSE <<>>)
         \o spaces(indent) \o <<"-">> \o source_after(items[i], indent)
         \o source_items(items, i + 1, indent)

\* The text of a value after the `key:` or the `-` of its line.
source_after(value, indent) ==
  CASE value.kind = "Mapping" ->
         IF value.entries = <<>> THEN <<" ", "{", "}">>
         ELSE <<"LF">> \o source_entries(value.entries, 1, indent + 2)
    [] value.kind = "Sequence" ->
         IF value.items = <<>> THEN <<" ", "[", "]">>
         ELSE <<"LF">> \o source_items(value.items, 1, indent + 2)
    [] value.kind = "Tagged" -> <<" ">> \o value.tag \o source_after(value.inner, indent)
    [] OTHER -> <<" ">> \o source_scalar(value)

SourceText(value) ==
  (CASE value.kind = "Mapping" /\ value.entries # <<>> -> source_entries(value.entries, 1, 0)
     [] value.kind = "Sequence" /\ value.items # <<>> -> source_items(value.items, 1, 0)
     [] OTHER -> Tail(source_after(value, 0))) \o <<"LF">>

\* Texts of the null document.
NullTexts ==
  { <<>>, <<"n","u","l","l","LF">>, <<"~","LF">>, <<"#"," ","c","LF">>, <<"n","u","l","l">>, <<" ","LF">> }

Bodies(value) == IF value.kind = "Null" THEN NullTexts ELSE {SourceText(value)}

Leads == { <<>>, <<"-","-","-","LF">>, <<" "," ","LF">>, <<"-","-","-">>, <<"LF","-","-","-","LF">> }

\* Texts before the document with which the source text is no YAML document:
\* a control character, and a mapping with the key k twice.
BadLeads == { <<"DEL">>, <<"k",":"," ","1","LF","k",":"," ","2","LF">> }

Words ==
  {
    <<"t","r","u","e">>,
    <<"T","r","u","e">>,
    <<"F","A","L","S","E">>,
    <<"n","u","l","l">>,
    <<"N","U","L","L">>,
    <<"~">>,
    <<"y","e","s">>,
    <<"N","o">>,
    <<"O","N">>,
    <<"o","f","f">>,
    <<"O","f","f">>,
    <<"4","2">>,
    <<"-","5">>,
    <<"3",".","1","4">>,
    <<"1","e","5">>,
    <<"1","E","5">>,
    <<"1","e","+","5">>,
    <<"1","E","+","5">>,
    <<"1","e","-","5">>,
    <<"1","E","-","5">>,
    <<"1",".","5","E","-","3">>,
    <<".","5">>,
    <<"5",".">>,
    <<"1",".","2",".","3">>,
    <<"1","e">>,
    <<"e","5">>,
    <<"0","x","1","F">>,
    <<".","i","n","f">>,
    <<"c","l","i","e","n","t","_","m","e","m","b","e","r","_","i","d">>,
    <<"B","r","o","n","z","e",".","R","a","w">>,
    <<"S","h","o","r","t"," ","d","e","s","c","r","i","p","t","i","o","n">>,
    <<" ","t","r","a","i","l","i","n","g">>,
    <<"t","r","a","i","l","i","n","g"," ">>,
    <<"-","d","a","s","h">>,
    <<"a","-","b">>,
    <<"a","/","b">>,
    <<>>,
    <<"l","1","LF","l","2">>,
    <<" ","l","e","a","d","i","n","g"," ","s","p","a","c","e","LF","v","a","l","u","e"," ">>,
    <<"l","1","LF","l","2"," ">>,
    <<"a","LF","LF","b">>,
    <<"a","LF"," "," ","b">>,
    <<"a","CR","LF","b">>,
    <<"x","SOH","LF","y">>,
    <<"x","DEL","LF","y">>,
    <<"x","PAD","LF","y">>,
    <<"q","\"","u","o","\\","t","e">>,
    <<"a",":"," ","b">>,
    <<"#","c">>,
    <<"n","u","l","l","x">>,
    <<"a","TAB","b">>,
    <<"TAB","a","LF","b">>,
    <<"a","LF","b","TAB">>,
    <<"x","SOH">>,
    <<"x","DEL">>,
    <<"LF">>,
    <<"a","LF">>
  }

\* Every string of at most MaxStrLen characters of GenAlphabet.
GenAlphabet == {"a", "E", "e", "1", "-", "+", ".", " ", "LF", "~"}

RECURSIVE StringsOfLen(_)
StringsOfLen(n) ==
  IF n = 0 THEN {<<>>}
  ELSE {Append(s, ch) : s \in StringsOfLen(n - 1), ch \in GenAlphabet}

GenStrings == UNION {StringsOfLen(n) : n \in 1..MaxStrLen}

K == <<"k">>
Tag == <<"!", "t">>

AsValue(v) == Mapping(<< <<Str(K), v>> >>)
AsNestedValue(v) == Mapping(<< <<Str(K), Mapping(<< <<Str(K), v>> >>)>> >>)
AsElement(v) == Mapping(<< <<Str(K), Sequence(<<v>>)>> >>)
AsKey(key) == Mapping(<< <<key, Integer(1)>> >>)

\* A string in each position: mapping value (at two depths), sequence element,
\* mapping key.
StringDocs ==
  {AsValue(Str(s)) : s \in Words \cup GenStrings}
    \cup {AsKey(Str(s)) : s \in Words \cup GenStrings}
    \cup {AsNestedValue(Str(s)) : s \in Words}
    \cup {AsElement(Str(s)) : s \in Words}

\* Mappings of up to MaxEntries entries with distinct keys of every kind, in
\* every order; the i-th entry has the value i.
KeyPool ==
  { Str(<<"b">>), Str(<<"a">>), Str(<<"B">>), Str(<<"a", "b">>), Str(<<"5">>), Integer(5),
    Integer(10), Bool(TRUE), Null, Tagged(Tag, Str(<<"a">>)) }

RECURSIVE KeySeqs(_)
KeySeqs(n) ==
  IF n = 0 THEN {<<>>}
  ELSE {Append(s, key) : s \in KeySeqs(n - 1), key \in KeyPool} \ 
         {Append(s, s[i]) : s \in KeySeqs(n - 1), i \in 1..(n - 1)}

OrderDocs ==
  UNION {{Mapping([i \in 1..n |-> <<ks[i], Integer(i)>>]) : ks \in KeySeqs(n)} : n \in 0..MaxEntries}

\* Collections nested to depth MaxDepth around a leaf.
Unsorted == Mapping(<< <<Str(<<"b">>), Integer(1)>>, <<Str(<<"a">>), Integer(2)>> >>)

Leaves ==
  { Integer(1), FloatNum(15, -1), Str(<<"x">>), Str(<<"l","1","LF","l","2">>), Str(<<"0","x","1","F">>),
    Mapping(<<>>), Sequence(<<>>), Unsorted }

Wrappers == {"first", "last", "item", "middle", "tagged"}

Wrap(w, x) ==
  CASE w = "first" -> Mapping(<< <<Str(<<"z">>), x>>, <<Str(<<"a">>), Null>> >>)
    [] w = "last" -> Mapping(<< <<Str(<<"b">>), Bool(FALSE)>>, <<Str(<<"a">>), x>> >>)
    [] w = "item" -> Sequence(<<x>>)
    [] w = "middle" -> Sequence(<<Str(<<"z">>), x, Str(<<"a">>)>>)
    [] w = "tagged" -> Mapping(<< <<Str(<<"t">>), Tagged(Tag, x)>> >>)

RECURSIVE Nested(_)
Nested(d) == IF d = 0 THEN Leaves ELSE {Wrap(w, x) : w \in Wrappers, x \in Nested(d - 1)}

NestedDocs == UNION {Nested(d) : d \in 1..MaxDepth}

\* Roots that are no mapping.
RootDocs ==
  { Null, Sequence(<<>>), Sequence(<<Str(<<"a">>), Str(<<"b">>)>>), Integer(5), Bool(TRUE),
    Str(<<"x">>), Str(<<"t","r","u","e">>), Tagged(Tag, Str(<<"x">>)) }

\* The documents that are also given with a lead.
LeadDocs == RootDocs \cup {Unsorted, AsValue(Str(<<"l","1","LF","l","2">>)), Wrap("middle", Unsorted)}

Docs == StringDocs \cup OrderDocs \cup NestedDocs \cup RootDocs \cup LeadDocs

(***************************************************************************)
(* The runs: a caller canonicalizes, emits and re-reads a tree; formats a  *)
(* source text and formats the result again; formats the tree as data.     *)
(***************************************************************************)
None == [kind |-> "None"]

\* The paths of the files, and no file at any of them.
Paths == {"a.yaml", "b.yaml"}

NoFiles == [path \in Paths |-> Absent]

Init ==
  /\ doc \in Docs
  /\ lead \in Leads \cup BadLeads
  /\ (lead # <<>> => doc \in LeadDocs)
  /\ source \in {lead \o body : body \in Bodies(doc)}
  /\ pc = "start"
  /\ sorted = None
  /\ emitted = None
  /\ reparsed = None
  /\ first = None
  /\ second = None
  /\ dictOut = None
  /\ emitRoots = <<>>
  /\ sortKeys = None
  /\ resorted = None
  /\ fs = NoFiles
  /\ calls = <<>>
  /\ outcome = None

\* sort_value(doc)
Canonicalize ==
  /\ pc = "start"
  /\ sorted' = sort_value(doc)
  /\ pc' = "sorted"
  /\ UNCHANGED <<doc, lead, source, emitted, reparsed, first, second, dictOut, emitRoots>>
  /\ UNCHANGED treeVars
  /\ UNCHANGED fileVars

\* emit_yaml(&sorted)
Emit ==
  /\ pc = "sorted"
  /\ emitted' = emit_yaml(sorted)
  /\ pc' = "emitted"
  /\ UNCHANGED <<doc, lead, source, sorted, reparsed, first, second, dictOut, emitRoots>>
  /\ UNCHANGED treeVars
  /\ UNCHANGED fileVars

\* serde_yaml::from_str(&emitted), as the tests re-read the formatted text
Reparse ==
  /\ pc = "emitted"
  /\ emitted.ok
  /\ reparsed' = from_str(emitted.text)
  /\ pc' = "reparsed"
  /\ UNCHANGED <<doc, lead, source, sorted, emitted, first, second, dictOut, emitRoots>>
  /\ UNCHANGED treeVars
  /\ UNCHANGED fileVars

\* format_yaml_string(&source)
FormatString ==
  /\ pc = "start"
  /\ first' = format_yaml_string(source)
  /\ emitRoots' = emitRoots \o format_yaml_string_run(source).emit_roots
  /\ pc' = "formatted"
  /\ UNCHANGED <<doc, lead, source, sorted, emitted, reparsed, second, dictOut>>
  /\ UNCHANGED treeVars
  /\ UNCHANGED fileVars

\* format_yaml_string(&first)
FormatAgain ==
  /\ pc = "formatted"
  /\ first.ok
  /\ second' = format_yaml_string(first.text)
  /\ emitRoots' = emitRoots \o format_yaml_string_run(first.text).emit_roots
  /\ pc' = "formatted twice"
  /\ UNCHANGED <<doc, lead, source, sorted, emitted, reparsed, first, dictOut>>
  /\ UNCHANGED treeVars
  /\ UNCHANGED fileVars

\* format_yaml_dict(&doc)
FormatDict ==
  /\ pc = "start"
  /\ dictOut' = format_yaml_dict(doc)
  /\ emitRoots' = emitRoots \o format_yaml_dict_run(doc).emit_roots
  /\ pc' = "dict"
  /\ UNCHANGED <<doc, lead, source, sorted, emitted, reparsed, first, second>>
  /\ UNCHANGED treeVars
  /\ UNCHANGED fileVars

Next == Canonicalize \/ Emit \/ Reparse \/ FormatString \/ FormatAgain \/ FormatDict

Spec == Init /\ [][Next]_vars


(***************************************************************************)
(* The runs on files: format_yaml_file on a file and again, or             *)
(* format_yaml_files on a list of paths, or the command line program.      *)
(***************************************************************************)
MaxCalls == 2

MaxPaths == 2

\* The texts of the files: formatted, unsorted, a string the formatter writes
\* plain and reads back as a number, a key twice, a list, the null document.
FileTexts ==
  { emit_yaml(sort_value(Unsorted)).text,
    SourceText(Unsorted),
    SourceText(AsValue(Str(<<"1", "E", "-", "5">>))),
    <<"k",":"," ","1","LF","k",":"," ","2","LF">>,
    <<"-"," ","a","LF","-"," ","b","LF">>,
    <<"n","u","l","l","LF">> }

FileStates ==
  {Absent, File(<<>>, FALSE, TRUE)} \cup {File(text, TRUE, writable) : text \in FileTexts, writable \in BOOLEAN}

RECURSIVE PathListsOfLen(_)
PathListsOfLen(n) ==
  IF n = 0 THEN {<<>>}
  ELSE {Append(paths, path) : paths \in PathListsOfLen(n - 1), path \in Paths}

PathLists == UNION {PathListsOfLen(n) : n \in 0..MaxPaths}

FileInit ==
  /\ fs \in [Paths -> FileStates]
  /\ calls = <<>>
  /\ outcome = None
  /\ pc = "idle"
  /\ doc = None
  /\ lead = <<>>
  /\ source = <<>>
  /\ sorted = None
  /\ emitted = None
  /\ reparsed = None
  /\ first = None
  /\ second = None
  /\ dictOut = None
  /\ emitRoots = <<>>
  /\ sortKeys = None
  /\ resorted = None

\* The state after format_yaml_file(path, check_only) returned `run`.
FormatFileReturns(path, check_only, run) ==
  /\ fs' = run.files
  /\ outcome' = run.result
  /\ calls' = Append(calls, Call(path, check_only, run.result, fs[path], run.files[path]))

\* format_yaml_file(&path, check_only)
FormatFile ==
  /\ pc \in {"idle", "file"}
  /\ Len(calls) < MaxCalls
  /\ \E path \in Paths, check_only \in BOOLEAN :
       FormatFileReturns(path, check_only, format_yaml_file(fs, path, check_only))
  /\ pc' = "file"
  /\ UNCHANGED textVars

\* The state after format_yaml_files or main returned `run`.
BatchReturns(run, result) ==
  /\ fs' = run.files
  /\ calls' = run.calls
  /\ outcome' = result

FormatFilesReturns(paths, check_only, run) ==
  BatchReturns(run, [paths |-> paths, check_only |-> check_only, changed |-> run.changed,
                     errors |-> run.errors, messages |-> run.messages])

\* format_yaml_files(paths, check_only)
FormatFiles ==
  /\ pc = "idle"
  /\ \E paths \in PathLists, check_only \in BOOLEAN :
       FormatFilesReturns(paths, check_only, format_yaml_files(fs, paths, check_only))
  /\ pc' = "files"
  /\ UNCHANGED textVars

MainReturns(paths, check, generate_completions, run) ==
  BatchReturns(run, [paths |-> paths, check |-> check,
                     generate_completions |-> generate_completions, exit |-> run.exit,
                     changed_count |-> run.changed_count, error_count |-> run.error_count,
                     success_count |-> run.success_count])

\* yars-format [--check] [--generate-completions SHELL] FILE...
Main ==
  /\ pc = "idle"
  /\ \E paths \in PathLists, check \in BOOLEAN, generate_completions \in BOOLEAN :
       /\ paths # <<>> \/ generate_completions
       /\ MainReturns(paths, check, generate_completions,
                      main(fs, check, generate_completions, paths))
  /\ pc' = "main"
  /\ UNCHANGED textVars

FileNext == FormatFile \/ FormatFiles \/ Main

FileSpec == FileInit /\ [][FileNext]_vars

(***************************************************************************)
(* The tree runs: a caller derives the sort keys of a mapping's keys,      *)
(* canonicalizes the tree, canonicalizes the result again, and emits it.   *)
(* The keys of these trees are also sequences and mappings.                *)
(***************************************************************************)
\* Keys that are collections, among scalar and tagged keys their sort keys
\* are compared with.
TreeKeyPool ==
  { Sequence(<<Str(<<"a">>), Str(<<"b">>)>>), Sequence(<<Str(<<"t","r","u","e">>)>>), Sequence(<<>>),
    Mapping(<< <<Str(<<"b">>), Integer(1)>>, <<Str(<<"a">>), Integer(2)>> >>), Mapping(<<>>),
    Str(<<"-", " ", "a">>), Str(<<"a">>), Integer(5), FloatNum(15, -1), Tagged(Tag, Integer(5)) }

RECURSIVE TreeKeySeqs(_)
TreeKeySeqs(n) ==
  IF n = 0 THEN {<<>>}
  ELSE {Append(s, key) : s \in TreeKeySeqs(n - 1), key \in TreeKeyPool} \ 
         {Append(s, s[i]) : s \in TreeKeySeqs(n - 1), i \in 1..(n - 1)}

\* Mappings of up to MaxEntries entries with distinct keys of TreeKeyPool, in
\* every order; every value is the mapping Unsorted.
KeyDocs ==
  UNION {{Mapping([i \in 1..n |-> <<ks[i], Unsorted>>]) : ks \in TreeKeySeqs(n)} : n \in 1..MaxEntries}

TreeDocs == OrderDocs \cup NestedDocs \cup KeyDocs

TreeInit ==
  /\ doc \in TreeDocs
  /\ lead = <<>>
  /\ source = <<>>
  /\ pc = "start"
  /\ sorted = None
  /\ emitted = None
  /\ reparsed = None
  /\ first = None
  /\ second = None
  /\ dictOut = None
  /\ emitRoots = <<>>
  /\ sortKeys = None
  /\ resorted = None
  /\ fs = NoFiles
  /\ calls = <<>>
  /\ outcome = None

\* key_sort_key(&key) for each key of the mapping, as the loop of sort_value
\* calls it
KeySortKeys ==
  /\ pc = "start"
  /\ doc.kind = "Mapping"
  /\ sortKeys' = [i \in 1..Len(doc.entries) |-> key_sort_key(doc.entries[i][1])]
  /\ pc' = "keys"
  /\ UNCHANGED <<doc, lead, source, sorted, emitted, reparsed, first, second, dictOut, emitRoots,
                 resorted>>
  /\ UNCHANGED fileVars

\* sort_value(sorted)
CanonicalizeAgain ==
  /\ pc = "sorted"
  /\ resorted' = sort_value(sorted)
  /\ pc' = "sorted twice"
  /\ UNCHANGED <<doc, lead, source, sorted, emitted, reparsed, first, second, dictOut, emitRoots,
                 sortKeys>>
  /\ UNCHANGED fileVars

TreeNext == KeySortKeys \/ Canonicalize \/ CanonicalizeAgain \/ Emit

TreeSpec == TreeInit /\ [][TreeNext]_vars


(***************************************************************************)
(* Properties                                                              *)
(***************************************************************************)
Quoted(s) == <<"\"">> \o s \o <<"\"">>

RECURSIVE Flatten(_)
Flatten(texts) == IF texts = <<>> THEN <<>> ELSE texts[1] \o Flatten(Tail(texts))

\* The documents of StringDocs, by the position of their string.
IsValueDoc(d) ==
  /\ d.kind = "Mapping" /\ Len(d.entries) = 1 /\ d.entries[1][1] = Str(K)
  /\ d.entries[1][2].kind = "String"

IsNestedValueDoc(d) ==
  /\ d.kind = "Mapping" /\ Len(d.entries) = 1 /\ d.entries[1][1] = Str(K)
  /\ IsValueDoc(d.entries[1][2])

IsElementDoc(d) ==
  /\ d.kind = "Mapping" /\ Len(d.entries) = 1 /\ d.entries[1][1] = Str(K)
  /\ d.entries[1][2].kind = "Sequence" /\ Len(d.entries[1][2].items) = 1
  /\ d.entries[1][2].items[1].kind = "String"

IsKeyDoc(d) ==
  /\ d.kind = "Mapping" /\ Len(d.entries) = 1 /\ d.entries[1][1].kind = "String"
  /\ d.entries[1][2] = Integer(1)

\* The emitted text of such a document is the scalar of its string between
\* these two texts.
Before(d) ==
  CASE IsValueDoc(d) -> <<"k",":"," ">>
    [] IsNestedValueDoc(d) -> <<"k",":","LF"," "," ","k",":"," ">>
    [] IsElementDoc(d) -> <<"k",":","LF"," "," ","-"," ">>
    [] IsKeyDoc(d) -> <<>>

After(d) == IF IsKeyDoc(d) THEN <<":"," ","1","LF">> ELSE <<"LF">>

\* The indentation of the entry that owns the string.
OwnerIndent(d) == IF IsValueDoc(d) THEN 0 ELSE 2

TheString(d) ==
  CASE IsValueDoc(d) -> d.entries[1][2].text
    [] IsNestedValueDoc(d) -> d.entries[1][2].entries[1][2].text
    [] IsElementDoc(d) -> d.entries[1][2].items[1].text
    [] IsKeyDoc(d) -> d.entries[1][1].text

IsStringDoc(d) == IsValueDoc(d) \/ IsNestedValueDoc(d) \/ IsElementDoc(d) \/ IsKeyDoc(d)

\* The scalar the emitter wrote for the string of the document.
TheScalar(d, text) == SubSeq(text, Len(Before(d)) + 1, Len(text) - Len(After(d)))

Framed(d, text) ==
  /\ Len(text) >= Len(Before(d)) + Len(After(d))
  /\ SubSeq(text, 1, Len(Before(d))) = Before(d)
  /\ SubSeq(text, Len(text) - Len(After(d)) + 1, Len(text)) = After(d)

\* ASCII case-insensitive equality with a lower-case word.
EqualsIgnoringCase(s, word) ==
  Len(s) = Len(word) /\ \A i \in 1..Len(s) : to_ascii_lowercase_char(s[i]) = word[i]

IsReservedWord(s) ==
  \E word \in {<<"t","r","u","e">>, <<"f","a","l","s","e">>, <<"n","u","l","l">>, <<"~">>, <<"y","e","s">>, <<"n","o">>, <<"o","n">>, <<"o","f","f">>} : EqualsIgnoringCase(s, word)

\* The numeric-literal shape: optionally one leading '-', then digits,
\* optionally one '.' followed by digits, optionally an exponent marker e or E
\* optionally followed by one sign and then digits.
RECURSIVE ShapeFrom(_, _, _)
ShapeFrom(s, i, at) ==
  IF i > Len(s) THEN at \in {"int", "frac", "exp"}
  ELSE CASE s[i] \in {"0", "1", "2", "3", "4", "5", "6", "7", "8", "9"} ->
              ShapeFrom(s, i + 1, CASE at \in {"start", "int"} -> "int"
                                    [] at \in {"dot", "frac"} -> "frac"
                                    [] OTHER -> "exp")
         [] s[i] = "." /\ at = "int" -> ShapeFrom(s, i + 1, "dot")
         [] s[i] \in {"e", "E"} /\ at \in {"int", "frac"} -> ShapeFrom(s, i + 1, "marker")
         [] s[i] \in {"+", "-"} /\ at = "marker" -> ShapeFrom(s, i + 1, "sign")
         [] OTHER -> FALSE

NumericShape(s) ==
  IF s # <<>> /\ s[1] = "-" THEN ShapeFrom(s, 2, "start") ELSE ShapeFrom(s, 1, "start")

IsWhitespace(ch) == ch \in {" ", "TAB", "LF", "FF", "CR"}

\* C0 controls other than tab, newline and carriage return; DEL; the C1 range.
IsDisallowedControl(ch) ==
  \/ (CodeOf(ch) \in 0..31 /\ CodeOf(ch) \notin {9, 10, 13})
  \/ CodeOf(ch) = 127
  \/ CodeOf(ch) \in 128..159

BlockEligible(s) ==
  /\ \E i \in 1..Len(s) : s[i] = "LF"
  /\ \A i \in 1..Len(s) : ~IsDisallowedControl(s[i])
  /\ ~IsWhitespace(s[1])
  /\ ~IsWhitespace(s[Len(s)])

PlainEligible(s) ==
  /\ s # <<>>
  /\ ~IsWhitespace(s[1])
  /\ ~IsWhitespace(s[Len(s)])
  /\ s[1] # "-"
  /\ \A i \in 1..Len(s) : s[i] # "LF"
  /\ ~IsReservedWord(s)
  /\ ~NumericShape(s)
  /\ \A i \in 1..Len(s) :
       \/ CodeOf(s[i]) \in 97..122 \/ CodeOf(s[i]) \in 65..90 \/ CodeOf(s[i]) \in 48..57
       \/ s[i] \in {"_", "-", ".", "/"}

\* The lines of s, each after n spaces.
Indented(s, n) ==
  spaces(n) \o Flatten([i \in 1..Len(s) |-> IF s[i] = "LF" THEN <<"LF">> \o spaces(n) ELSE <<s[i]>>])

\* A double-quoted scalar on one line.
IsDoubleQuoted(q) ==
  /\ Len(q) >= 2 /\ q[1] = "\"" /\ q[Len(q)] = "\""
  /\ \A i \in 1..Len(q) : q[i] # "LF"
  /\ \A i \in 2..(Len(q) - 1) : q[i] = "\"" => q[i - 1] = "\\"

\* The parsed root of a source text.
ParsedRoot(text) == from_str(strip_leading_marker(text))

IndexOfKey(entries, key) == CHOOSE i \in 1..Len(entries) : entries[i][1] = key

ValueOfKey(entries, key) == entries[IndexOfKey(entries, key)][2]

KeysOf(entries) == {entries[i][1] : i \in 1..Len(entries)}

\* out holds the entries of in in ascending order of key_sort_key, entries of
\* equal sort keys in their input order.
EntriesSorted(in, out) ==
  /\ Len(out) = Len(in)
  /\ KeysOf(out) = KeysOf(in)
  /\ \A i, j \in 1..Len(out) :
       i < j =>
         /\ StrLeq(key_sort_key(out[i][1]), key_sort_key(out[j][1]))
         /\ key_sort_key(out[i][1]) = key_sort_key(out[j][1])
              => IndexOfKey(in, out[i][1]) < IndexOfKey(in, out[j][1])

\* Every mapping of out, reached through mapping values, sequence elements and
\* the kinds of `through` (tagged values: "Tagged", mapping keys: "Key"), is
\* the sorted mapping of in at the same place.
RECURSIVE MappingsSorted(_, _, _)
MappingsSorted(in, out, through) ==
  CASE out.kind = "Mapping" ->
         /\ in.kind = "Mapping"
         /\ EntriesSorted(in.entries, out.entries)
         /\ \A i \in 1..Len(out.entries) :
              /\ MappingsSorted(ValueOfKey(in.entries, out.entries[i][1]), out.entries[i][2],
                                through)
              /\ "Key" \in through
                   => MappingsSorted(out.entries[i][1], out.entries[i][1], through)
    [] out.kind = "Sequence" ->
         /\ in.kind = "Sequence"
         /\ Len(in.items) = Len(out.items)
         /\ \A i \in 1..Len(out.items) : MappingsSorted(in.items[i], out.items[i], through)
    [] out.kind = "Tagged" ->
         "Tagged" \in through
           => in.kind = "Tagged" /\ MappingsSorted(in.inner, out.inner, through)
    [] OTHER -> TRUE

\* Every sequence of in, reached through mapping values, sequence elements and
\* (with "Tagged" in through) tagged values, is in out the sequence of the
\* canonicalized elements, in the same order.
RECURSIVE SequencesKept(_, _, _)
SequencesKept(in, out, through) ==
  CASE in.kind = "Sequence" ->
         /\ out.kind = "Sequence"
         /\ Len(out.items) = Len(in.items)
         /\ \A i \in 1..Len(in.items) :
              /\ out.items[i] = sort_value(in.items[i])
              /\ SequencesKept(in.items[i], out.items[i], through)
    [] in.kind = "Mapping" ->
         /\ out.kind = "Mapping"
         /\ KeysOf(out.entries) = KeysOf(in.entries)
         /\ \A i \in 1..Len(in.entries) :
              SequencesKept(in.entries[i][2], ValueOfKey(out.entries, in.entries[i][1]), through)
    [] in.kind = "Tagged" ->
         "Tagged" \in through
           => out.kind = "Tagged" /\ SequencesKept(in.inner, out.inner, through)
    [] OTHER -> TRUE

\* A string of ASCII letters.
IsWord(s) == \A i \in 1..Len(s) : CodeOf(s[i]) \in 97..122 \/ CodeOf(s[i]) \in 65..90

\* The tree read back from the emitted text holds every sequence of the
\* canonical tree (reached through mapping values and sequence elements) with
\* its elements in their order: collections element by element, a null, bool
\* or number as it is, a string of letters as it is.
RECURSIVE TextKeeps(_, _)
TextKeeps(canonical, read) ==
  CASE canonical.kind = "Sequence" ->
         /\ read.kind = "Sequence"
         /\ Len(read.items) = Len(canonical.items)
         /\ \A i \in 1..Len(canonical.items) : TextKeeps(canonical.items[i], read.items[i])
    [] canonical.kind = "Mapping" ->
         /\ read.kind = "Mapping"
         /\ Len(read.entries) = Len(canonical.entries)
         /\ \A i \in 1..Len(canonical.entries) :
              TextKeeps(canonical.entries[i][2], read.entries[i][2])
    [] canonical.kind = "Tagged" -> TRUE
    [] canonical.kind = "String" -> IsWord(canonical.text) => read = canonical
    [] OTHER -> read = canonical

\* Equality of trees up to the order of mapping entries.
RECURSIVE EqualUpToOrder(_, _)
EqualUpToOrder(a, b) ==
  CASE a.kind = "Mapping" ->
         /\ b.kind = "Mapping"
         /\ Len(a.entries) = Len(b.entries)
         /\ \A i \in 1..Len(a.entries) :
              \E j \in 1..Len(b.entries) :
                /\ EqualUpToOrder(a.entries[i][1], b.entries[j][1])
                /\ EqualUpToOrder(a.entries[i][2], b.entries[j][2])
    [] a.kind = "Sequence" ->
         /\ b.kind = "Sequence"
         /\ Len(a.items) = Len(b.items)
         /\ \A i \in 1..Len(a.items) : EqualUpToOrder(a.items[i], b.items[i])
    [] a.kind = "Tagged" ->
         b.kind = "Tagged" /\ a.tag = b.tag /\ EqualUpToOrder(a.inner, b.inner)
    [] OTHER -> a = b

\* C1: whenever format_yaml_string succeeds on a text with output F, formatting
\* F succeeds too and returns F; and for every tree v, the text emitted for
\* canonicalize(v), read back, canonicalized and emitted, is that same text.
C1_Idempotence ==
  /\ pc = "formatted twice" => second.ok /\ second.text = first.text
  /\ pc = "reparsed" => reparsed.ok /\ emit_yaml(sort_value(reparsed.val)) = emitted

\* C2, as stated: in the tree sort_value returns, every mapping, whatever
\* encloses it (a tagged value and a mapping key included), has its entries in
\* ascending order of key_sort_key, ties in input order.
C2_EveryMappingSorted ==
  pc = "sorted" => MappingsSorted(doc, sorted, {"Tagged", "Key"})

\* C2, amended: in the tree sort_value returns, every mapping reached from the
\* root through mapping values and sequence elements has its entries in
\* ascending code-point order of key_sort_key of their keys, and entries of
\* equal sort keys keep their input order.
C2_ReachedMappingsSorted == pc = "sorted" => MappingsSorted(doc, sorted, {})

\* A mapping of three entries, two of them with the same sort key, nested
\* nowhere or in a sequence, was sorted into another order.
C2_Witness ==
  /\ pc = "sorted"
  /\ doc.kind = "Mapping"
  /\ Len(doc.entries) = MaxEntries
  /\ \E i, j \in 1..Len(doc.entries) :
       i < j /\ key_sort_key(doc.entries[i][1]) = key_sort_key(doc.entries[j][1])
  /\ sorted # doc

\* C3, as stated: every sequence of the input tree, whatever encloses it, is in
\* the canonicalized tree a sequence of as many elements, the i-th being the
\* canonicalized i-th input element.
C3_EverySequenceKept == pc = "sorted" => SequencesKept(doc, sorted, {"Tagged"})

\* C3, amended: every sequence of the input tree reached from the root through
\* mapping values and sequence elements is in the canonicalized tree a sequence
\* of as many elements, the i-th being the canonicalized i-th input element;
\* and the emitted text, read back, holds these sequences with as many
\* elements in the same order.
C3_ReachedSequencesKept ==
  /\ pc = "sorted" => SequencesKept(doc, sorted, {})
  /\ pc = "reparsed" /\ reparsed.ok => TextKeeps(sorted, reparsed.val)

\* A sequence of three elements around an unsorted mapping, under a mapping
\* key, was canonicalized, emitted and read back.
C3_Witness ==
  /\ pc = "reparsed"
  /\ reparsed.ok
  /\ doc = Wrap("last", Wrap("middle", Unsorted))
  /\ sorted.entries[1][2].items[2] = sort_value(Unsorted)
  /\ Len(reparsed.val.entries[1][2].items) = 3

\* C4: for every tree with a mapping root, the text emitted for the
\* canonicalized tree reads back as a tree equal to the canonicalized tree up
\* to the order of mapping entries.
C4_RoundTrip ==
  pc = "reparsed" /\ doc.kind = "Mapping" => reparsed.ok /\ EqualUpToOrder(sorted, reparsed.val)

\* C5: a string that is a reserved word (true, false, null, ~, yes, no, on, off,
\* compared without case), as a mapping value, a sequence element or a mapping
\* key, is emitted as the double-quoted scalar of its characters.
C5_ReservedWordsQuoted ==
  pc = "emitted" /\ IsStringDoc(doc) /\ IsReservedWord(TheString(doc))
    => emitted = Ok(Before(doc) \o Quoted(TheString(doc)) \o After(doc))

\* A reserved word not in lower case was emitted as a sequence element.
C5_Witness ==
  /\ pc = "emitted"
  /\ IsElementDoc(doc)
  /\ IsReservedWord(TheString(doc))
  /\ TheString(doc) # to_ascii_lowercase(TheString(doc))
  /\ emitted.ok

\* C6: a string of the numeric-literal shape, as a mapping value, a sequence
\* element or a mapping key, is emitted double-quoted, with either exponent
\* marker and with or without a sign after it.
C6_NumericShapeQuoted ==
  pc = "emitted" /\ IsStringDoc(doc) /\ NumericShape(TheString(doc))
    => emitted = Ok(Before(doc) \o Quoted(TheString(doc)) \o After(doc))

\* C7: a string in mapping-value or sequence-element position is emitted as a
\* `|-` literal block exactly when it is block-eligible; the block holds each
\* line of the string after the owning entry's indentation plus 2 spaces and no
\* blank line at the end; any other string with a line break is emitted as a
\* double-quoted scalar.
C7_BlockLiteral ==
  pc = "emitted" /\ IsStringDoc(doc) /\ ~IsKeyDoc(doc)
    => /\ emitted.ok
       /\ Framed(doc, emitted.text)
       /\ IF TheString(doc) # <<>> /\ BlockEligible(TheString(doc))
            THEN TheScalar(doc, emitted.text)
                   = <<"|", "-", "LF">> \o Indented(TheString(doc), OwnerIndent(doc) + 2)
            ELSE /\ ~starts_with(TheScalar(doc, emitted.text), <<"|">>)
                 /\ Contains(TheString(doc), "LF")
                      => IsDoubleQuoted(TheScalar(doc, emitted.text))

\* A string of three lines, the second one blank, was emitted as a block in a
\* nested mapping.
C7_Witness ==
  /\ pc = "emitted"
  /\ doc = AsNestedValue(Str(<<"a","LF","LF","b">>))
  /\ emitted = Ok(<<"k",":","LF"," "," ","k",":"," ","|","-","LF"," "," "," "," ","a","LF"," "," "," "," ","LF"," "," "," "," ","b","LF">>)

\* C8: a string, as a mapping key or as a value that is no block, is emitted
\* unquoted exactly when it is plain-eligible, and double-quoted otherwise.
C8_PlainEligibility ==
  pc = "emitted" /\ IsStringDoc(doc)
    /\ (IsKeyDoc(doc) \/ TheString(doc) = <<>> \/ ~BlockEligible(TheString(doc)))
    => /\ emitted.ok
       /\ Framed(doc, emitted.text)
       /\ IF PlainEligible(TheString(doc))
            THEN TheScalar(doc, emitted.text) = TheString(doc)
            ELSE IsDoubleQuoted(TheScalar(doc, emitted.text))

\* C9: when the parsed root of the source text is Null, format_yaml_string
\* returns the source text itself and hands nothing to the emitter.
C9_NullDocumentReturned ==
  /\ pc = "formatted" /\ ParsedRoot(source).ok /\ ParsedRoot(source).val = Null
       => first = Ok(source) /\ emitRoots = <<>>
  /\ pc = "formatted twice" /\ ParsedRoot(first.text).ok /\ ParsedRoot(first.text).val = Null
       => second = Ok(first.text)

\* A null document after a document-start marker was returned as it is.
C9_Witness ==
  /\ pc = "formatted"
  /\ doc = Null
  /\ starts_with(trim_start(source), <<"-", "-", "-">>)
  /\ Len(source) > Len(lead)
  /\ first = Ok(source)

\* C10: when the root is a sequence, format_yaml_string and format_yaml_dict
\* fail with TopLevelList and return no text, and no entry point hands a
\* sequence root to the emitter.
C10_TopLevelListRejected ==
  /\ pc = "formatted" /\ ParsedRoot(source).ok /\ ParsedRoot(source).val.kind = "Sequence"
       => first = Err("TopLevelList")
  /\ pc = "dict" /\ doc.kind = "Sequence" => dictOut = Err("TopLevelList")
  /\ \A i \in 1..Len(emitRoots) : emitRoots[i].kind # "Sequence"

\* format_yaml_string was given a text whose root is a sequence with elements,
\* and failed.
C10_Witness ==
  /\ pc = "formatted"
  /\ doc.kind = "Sequence"
  /\ doc.items # <<>>
  /\ first = Err("TopLevelList")


\* A Result is a complete text or an error, never both.
TextOrError(result) ==
  IF result.ok THEN DOMAIN result = {"ok", "text"} ELSE "text" \notin DOMAIN result

\* C11: when the parser rejects the text (after the leading-marker strip),
\* format_yaml_string returns the Format error with the parser's message,
\* nothing is handed to the emitter, and every result is a text or an error,
\* never both.
C11_ParseFailureReturned ==
  /\ pc = "formatted" /\ ~ParsedRoot(source).ok
       => /\ first = [ok |-> FALSE, err |-> "Format", message |-> ParsedRoot(source).message]
          /\ emitRoots = <<>>
  /\ pc = "formatted twice" /\ ~ParsedRoot(first.text).ok
       => second = [ok |-> FALSE, err |-> "Format", message |-> ParsedRoot(first.text).message]
  /\ pc \in {"formatted", "formatted twice"} => TextOrError(first)
  /\ pc = "formatted twice" => TextOrError(second)

\* format_yaml_string was given a mapping with a key twice and returned the
\* parser's error.
C11_Witness ==
  /\ pc = "formatted"
  /\ lead \in BadLeads
  /\ lead # <<"DEL">>
  /\ doc = Unsorted
  /\ ~first.ok
  /\ first.err = "Format"
  /\ first.message = ParsedRoot(source).message
  /\ first.message # ""

\* The text from its first character on that is no whitespace.
RECURSIVE AfterWhitespace(_)
AfterWhitespace(text) ==
  IF text # <<>> /\ IsWhitespace(text[1]) THEN AfterWhitespace(Tail(text)) ELSE text

Marker == <<"-", "-", "-">>

HasMarker(text) ==
  Len(AfterWhitespace(text)) >= 3 /\ SubSeq(AfterWhitespace(text), 1, 3) = Marker

\* The text after its leading whitespace, its marker and the line feed that
\* follows the marker, if any.
AfterMarker(text) ==
  IF Len(AfterWhitespace(text)) >= 4 /\ AfterWhitespace(text)[4] = "LF"
    THEN SubSeq(AfterWhitespace(text), 5, Len(AfterWhitespace(text)))
    ELSE SubSeq(AfterWhitespace(text), 4, Len(AfterWhitespace(text)))

\* No line of the text starts with the marker.
NoMarkerLine(text) ==
  \A i \in 1..(Len(text) - 2) :
    SubSeq(text, i, i + 2) = Marker => i > 1 /\ text[i - 1] # "LF"

\* C12, as stated: for a source text with the marker after its leading
\* whitespace, the parser is given the text without the marker, and whenever
\* format_yaml_string succeeds the returned text does not begin with `---`.
C12_MarkerNeverReturned ==
  pc = "formatted" /\ HasMarker(source)
    => /\ first = format_parsed(source, from_str(AfterMarker(source))).result
       /\ first.ok => NoMarkerLine(first.text)

\* C12, amended: for a source text with the marker after its leading
\* whitespace, the parser is given the text without the marker, and whenever
\* format_yaml_string succeeds on a document whose root is not Null no line
\* of the returned text begins with `---`.
C12_MarkerStripped ==
  pc = "formatted" /\ HasMarker(source)
    => /\ first = format_parsed(source, from_str(AfterMarker(source))).result
       /\ first.ok /\ from_str(AfterMarker(source)).val # Null => NoMarkerLine(first.text)

\* A mapping after a marker without a line break was formatted.
C12_Witness ==
  /\ pc = "formatted"
  /\ lead = Marker
  /\ doc = Unsorted
  /\ first = emit_yaml(sort_value(Unsorted))

\* The text ends with a line feed and not with two.
EndsWithOneNewline(text) ==
  /\ text # <<>>
  /\ text[Len(text)] = "LF"
  /\ Len(text) >= 2 => text[Len(text) - 1] # "LF"

\* C13: the text emit_yaml returns for a tree is the buffer of write_root and
\* one line feed; the buffer does not end with a line feed and is not empty,
\* so the text ends with exactly one line feed; an entry point returns the
\* empty text only for the empty document.
C13_OneTrailingNewline ==
  /\ pc = "emitted"
       => /\ emitted.ok
          /\ EndsWithOneNewline(emitted.text)
          /\ emitted.text = write_root(sorted) \o <<"LF">>
  /\ pc = "formatted" /\ first.ok
       => IF ParsedRoot(source).val = Null THEN first.text = <<>> => source = <<>>
          ELSE EndsWithOneNewline(first.text)
  /\ pc = "dict" /\ dictOut.ok
       => IF doc = Null THEN dictOut.text = <<>> ELSE EndsWithOneNewline(dictOut.text)

\* A string that ends with a line feed was emitted as a mapping value.
C13_Witness ==
  /\ pc = "emitted"
  /\ IsValueDoc(doc)
  /\ TheString(doc) = <<"a", "LF">>
  /\ EndsWithOneNewline(emitted.text)

\* The keys of the entries are pairwise distinct.
DistinctKeys(entries) ==
  \A i, j \in 1..Len(entries) : entries[i][1] = entries[j][1] => i = j

\* out is in with the entries of the mappings reached through mapping values
\* and sequence elements in some order: the same keys, each with the value of
\* the input entry kept in the same way, no entry twice; the elements of a
\* sequence kept one by one; any other value as it is.
RECURSIVE ContentKept(_, _)
ContentKept(in, out) ==
  CASE in.kind = "Mapping" ->
         /\ out.kind = "Mapping"
         /\ Len(out.entries) = Len(in.entries)
         /\ DistinctKeys(out.entries)
         /\ KeysOf(out.entries) = KeysOf(in.entries)
         /\ \A i \in 1..Len(in.entries) :
              ContentKept(in.entries[i][2], ValueOfKey(out.entries, in.entries[i][1]))
    [] in.kind = "Sequence" ->
         /\ out.kind = "Sequence"
         /\ Len(out.items) = Len(in.items)
         /\ \A i \in 1..Len(in.items) : ContentKept(in.items[i], out.items[i])
    [] OTHER -> out = in

\* C14: sort_value returns a tree for every tree, and for a mapping with
\* pairwise distinct keys the returned mapping has the same keys, each with
\* the canonicalized value of the input entry, and as many entries, also when
\* two keys have the same sort key.
C14_ContentPreserved ==
  pc = "sorted"
    => /\ sorted.kind \in {"Null", "Bool", "Number", "String", "Sequence", "Mapping", "Tagged"}
       /\ ContentKept(doc, sorted)
       /\ doc.kind = "Mapping"
            => \A i \in 1..Len(doc.entries) :
                 ValueOfKey(sorted.entries, doc.entries[i][1]) = sort_value(doc.entries[i][2])

\* A mapping of three entries with the keys "5" and 5, which have the same sort
\* key, was canonicalized.
C14_Witness ==
  /\ pc = "sorted"
  /\ doc.kind = "Mapping"
  /\ Len(doc.entries) = MaxEntries
  /\ {Str(<<"5">>), Integer(5)} \subseteq KeysOf(doc.entries)
  /\ key_sort_key(Str(<<"5">>)) = key_sort_key(Integer(5))
  /\ Len(sorted.entries) = MaxEntries

\* C19: for a tree with a mapping root, format_yaml_dict returns what
\* format_yaml_string returns for a text that parses to the tree, so the two
\* results, read back, are equal trees.
C19_EntryPointsAgree ==
  pc = "dict" /\ doc.kind = "Mapping" /\ ParsedRoot(source).ok /\ ParsedRoot(source).val = doc
    => /\ dictOut = format_yaml_string(source)
       /\ dictOut.ok => from_str(dictOut.text) = from_str(format_yaml_string(source).text)

\* format_yaml_dict formatted an unsorted mapping whose text has a marker.
C19_Witness ==
  /\ pc = "dict"
  /\ doc = Unsorted
  /\ lead = <<"-", "-", "-", "LF">>
  /\ ParsedRoot(source).val = doc
  /\ dictOut.ok
  /\ dictOut.text = emit_yaml(sort_value(Unsorted)).text

\* The word of `Expected dict, got <kind>` for a root that is no mapping,
\* sequence or null.
KindWord(value) ==
  CASE value.kind = "Bool" -> "bool"
    [] value.kind = "Number" -> "number"
    [] value.kind = "String" -> "string"
    [] value.kind = "Tagged" -> "tagged"

\* C20: format_yaml_dict returns the empty text for a Null root, TopLevelList
\* for a Sequence root, the Format error `Expected dict, got <kind>` for a
\* bool, number, string or tagged root, and emits a mapping root only;
\* format_yaml_string emits a scalar or tagged root.
C20_DictRequiresMapping ==
  /\ pc = "dict"
       => CASE doc.kind = "Null" -> dictOut = [ok |-> TRUE, text |-> <<>>] /\ emitRoots = <<>>
            [] doc.kind = "Sequence" ->
                 dictOut = [ok |-> FALSE, err |-> "TopLevelList"] /\ emitRoots = <<>>
            [] doc.kind = "Mapping" ->
                 dictOut = emit_yaml(sort_value(doc)) /\ emitRoots = <<sort_value(doc)>>
            [] OTHER ->
                 /\ dictOut = [ok |-> FALSE, err |-> "Format",
                               message |-> <<"Expected dict, got ", KindWord(doc)>>]
                 /\ emitRoots = <<>>
  /\ pc = "formatted" /\ ParsedRoot(source).ok
       /\ ParsedRoot(source).val.kind \in {"Bool", "Number", "String", "Tagged"}
       => first = emit_yaml(ParsedRoot(source).val) /\ emitRoots = <<ParsedRoot(source).val>>

\* format_yaml_dict was given a tagged root.
C20_Witness ==
  /\ pc = "dict"
  /\ doc.kind = "Tagged"
  /\ ~dictOut.ok
  /\ dictOut.message = <<"Expected dict, got ", "tagged">>

\* ---- files ----------------------------------------------------------------
\* What format_yaml_string returns for the text the call read.
FormattedOf(call) == format_yaml_string(call.before.text)

Readable(call) == call.before.exists /\ call.before.readable

\* The call read a text whose formatted text is another text.
Differs(call) == Readable(call) /\ FormattedOf(call).ok /\ FormattedOf(call).text # call.before.text

Overwritten(call) == call.after # call.before

\* The error a call returns for a file it cannot format.
ExpectedError(call) ==
  CASE ~call.before.exists -> "MissingFile"
    [] ~call.before.readable -> "ReadFailure"
    [] OTHER -> FormattedOf(call).err

\* What C15 says of a call, but for the condition under which the file is
\* overwritten.
WriteThrough(call) ==
  /\ Overwritten(call) => call.after = [call.before EXCEPT !.text = FormattedOf(call).text]
  /\ call.result.ok
       => Readable(call) /\ FormattedOf(call).ok /\ call.result.changed = Differs(call)
  /\ ~Readable(call) \/ ~FormattedOf(call).ok
       => ~call.result.ok /\ call.result.err = ExpectedError(call) /\ ~Overwritten(call)
  /\ call.check_only \/ ~Differs(call) => ~Overwritten(call)

C16_FileConvergence ==
  pc = "file"
    => \A i \in 1..(Len(calls) - 1) :
         calls[i].path = calls[i + 1].path /\ ~calls[i].check_only /\ calls[i].result.ok
           => calls[i + 1].result = OkChanged(FALSE) /\ ~Overwritten(calls[i + 1])

\* The calls that failed, in their order.
RECURSIVE Failures(_)
Failures(log) ==
  IF log = <<>> THEN <<>>
  ELSE (IF log[1].result.ok THEN <<>> ELSE <<log[1]>>) \o Failures(Tail(log))

\* The file of the i-th call before it: as the last call before on the same
\* path left it.
Chained(log, i) ==
  \A h \in 1..(i - 1) :
    log[h].path = log[i].path /\ (\A g \in (h + 1)..(i - 1) : log[g].path # log[i].path)
      => log[i].before = log[h].after

\* C17: format_yaml_files processes every path, in order, each as
\* format_yaml_file does whatever the paths before it returned; errors is the
\* number of paths that failed, messages holds the texts of their errors in
\* path order, changed is the number of paths that returned true, and changed
\* plus errors is at most the number of paths.
C17_BatchAggregation ==
  pc = "files"
    => /\ Len(calls) = Len(outcome.paths)
       /\ \A i \in 1..Len(calls) :
            /\ calls[i].path = outcome.paths[i]
            /\ calls[i].check_only = outcome.check_only
            /\ Chained(calls, i)
            /\ calls[i].result.ok => calls[i].result.changed = Differs(calls[i])
            /\ Overwritten(calls[i])
                 <=> Differs(calls[i]) /\ ~outcome.check_only /\ calls[i].before.writable
       /\ outcome.errors = Cardinality({i \in 1..Len(calls) : ~calls[i].result.ok})
       /\ outcome.changed
            = Cardinality({i \in 1..Len(calls) : calls[i].result.ok /\ calls[i].result.changed})
       /\ Len(outcome.messages) = outcome.errors
       /\ outcome.messages
            = [j \in 1..Len(Failures(calls)) |-> error_to_string(Failures(calls)[j].result)]
       /\ outcome.changed + outcome.errors <= Len(outcome.paths)

\* The first path failed and the file of the second path was formatted and
\* written.
C17_Witness ==
  /\ pc = "files"
  /\ Len(calls) = 2
  /\ ~calls[1].result.ok
  /\ calls[2].result = OkChanged(TRUE)
  /\ Overwritten(calls[2])
  /\ outcome.changed = 1 /\ outcome.errors = 1 /\ Len(outcome.messages) = 1

\* C18: the command line program processes every listed file; its exit code
\* is 2 if a file produced an error, otherwise 1 if --check is set and a file
\* would change, otherwise 0; with --check no file is modified.
C18_ExitStatus ==
  pc = "main" /\ ~outcome.generate_completions
    => /\ Len(calls) = Len(outcome.paths)
       /\ \A i \in 1..Len(calls) : calls[i].path = outcome.paths[i]
       /\ outcome.exit
            = CASE \E i \in 1..Len(calls) : ~calls[i].result.ok -> 2
                [] outcome.check /\ \E i \in 1..Len(calls) : calls[i].result.changed -> 1
                [] OTHER -> 0
       /\ \A i \in 1..Len(calls) :
            /\ calls[i].result.ok => calls[i].result.changed = Differs(calls[i])
            /\ outcome.check => ~Overwritten(calls[i])

\* With --check, a file would change and another file produced an error:
\* the exit code is 2.
C18_Witness ==
  /\ pc = "main"
  /\ outcome.check
  /\ ~outcome.generate_completions
  /\ Len(calls) = 2
  /\ calls[1].result = OkChanged(TRUE)
  /\ ~calls[2].result.ok
  /\ outcome.exit = 2

\* ---- layout ---------------------------------------------------------------
\* A mapping whose one entry has a tagged value.
IsTaggedValueDoc(d) ==
  d.kind = "Mapping" /\ Len(d.entries) = 1 /\ d.entries[1][1].kind = "String"
    /\ is_plain_key(d.entries[1][1].text) /\ d.entries[1][2].kind = "Tagged"

\* The text after `key:` that the inner value of the tagged value produces when
\* it is itself the value of the key, without the space that separates an
\* inline value from the colon.
InnerAlone(d) ==
  LET key == d.entries[1][1]
      alone == emit_yaml(Mapping(<< <<key, d.entries[1][2].inner>> >>)).text
      after == DropFirst(alone, Len(key.text) + 1)
  IN IF after # <<>> /\ after[1] = " " THEN Tail(after) ELSE after

\* C21: a Tagged(tag, inner) that is the value of a key is emitted as the
\* tag, one space, and the text that inner alone produces as the value of
\* that key at that indentation (a block-eligible string with its `|-`
\* header, a non-empty collection from a new line on).
C21_TaggedRendering ==
  pc = "emitted" /\ IsTaggedValueDoc(sorted)
    => emitted.text
         = sorted.entries[1][1].text \o <<":", " ">> \o sorted.entries[1][2].tag \o <<" ">>
             \o InnerAlone(sorted)

\* ---- sort keys ------------------------------------------------------------
\* The sort key the claim gives a scalar or tagged key.
RECURSIVE DerivedSortKey(_)
DerivedSortKey(key) ==
  CASE key.kind = "Null" -> <<"n", "u", "l", "l">>
    [] key.kind = "Bool" -> IF key.b THEN <<"t", "r", "u", "e">> ELSE <<"f", "a", "l", "s", "e">>
    [] key.kind = "Number" -> number_to_string(key)
    [] key.kind = "String" -> key.text
    [] key.kind = "Tagged" -> key.tag \o <<":">> \o DerivedSortKey(key.inner)

IsScalarOrTagged(value) == value.kind \in {"Null", "Bool", "Number", "String", "Tagged"}

Five == Integer(5)

FiveText == Str(<<"5">>)

\* C22: key_sort_key gives every key a sort key: null, true or false, the
\* decimal text of a number, the text of a string, and tag:key for a tagged
\* key; so the keys 5 and "5" have one sort key, and in the canonicalized
\* mapping they are adjacent, in the order they had in the input.
C22_SortKeyDerivation ==
  /\ pc = "keys"
       => /\ Len(sortKeys) = Len(doc.entries)
          /\ \A i \in 1..Len(doc.entries) :
               /\ sortKeys[i] \in Seq(Alphabet)
               /\ IsScalarOrTagged(doc.entries[i][1])
                    => sortKeys[i] = DerivedSortKey(doc.entries[i][1])
               /\ doc.entries[i][1] \in {Five, FiveText} => sortKeys[i] = <<"5">>
  /\ pc = "sorted" /\ doc.kind = "Mapping" /\ {Five, FiveText} \subseteq KeysOf(doc.entries)
       => /\ {Five, FiveText} \subseteq KeysOf(sorted.entries)
          /\ IF IndexOfKey(doc.entries, Five) < IndexOfKey(doc.entries, FiveText)
               THEN IndexOfKey(sorted.entries, FiveText) = IndexOfKey(sorted.entries, Five) + 1
               ELSE IndexOfKey(sorted.entries, Five) = IndexOfKey(sorted.entries, FiveText) + 1

\* The keys "5", 10 and 5 in this order: canonicalized to 10, "5", 5.
C22_Witness ==
  /\ pc = "sorted"
  /\ doc.kind = "Mapping"
  /\ Len(doc.entries) = 3
  /\ doc.entries[1][1] = FiveText /\ doc.entries[2][1] = Integer(10) /\ doc.entries[3][1] = Five
  /\ sorted.entries[1][1] = Integer(10)
  /\ sorted.entries[2][1] = FiveText
  /\ sorted.entries[3][1] = Five

\* The text with every line feed replaced by a space, and trimmed.
OnOneLine(text) == trim_end(trim_start(replace_newlines(text)))

\* The texts this program's emitter writes for a collection: as a root, as a
\* canonicalized root, and at indentation 0.
EmissionTexts(value) ==
  { emit_yaml(value).text,
    emit_yaml(sort_value(value)).text,
    IF value.kind = "Sequence" THEN write_sequence(value.items, 0) ELSE write_mapping(value, 0) }

\* C25: the sort key of a key that is a sequence or a mapping is the text this
\* program's emitter writes for that value, with every line feed replaced by
\* one space, and trimmed.
C25_CollectionSortKey ==
  pc = "keys"
    => \A i \in 1..Len(doc.entries) :
         doc.entries[i][1].kind \in {"Sequence", "Mapping"}
           => sortKeys[i] \in {OnOneLine(text) : text \in EmissionTexts(doc.entries[i][1])}

\* ---- canonicalizer --------------------------------------------------------
\* out is in with the entries of mappings reached through mapping values and
\* sequence elements in another order, every key and every other value as
\* given.
RECURSIVE PassedThrough(_, _)
PassedThrough(in, out) ==
  CASE in.kind = "Mapping" ->
         /\ out.kind = "Mapping"
         /\ Len(out.entries) = Len(in.entries)
         /\ KeysOf(out.entries) = KeysOf(in.entries)
         /\ \A i \in 1..Len(in.entries) :
              PassedThrough(in.entries[i][2], ValueOfKey(out.entries, in.entries[i][1]))
    [] in.kind = "Sequence" ->
         /\ out.kind = "Sequence"
         /\ Len(out.items) = Len(in.items)
         /\ \A i \in 1..Len(in.items) : PassedThrough(in.items[i], out.items[i])
    [] OTHER -> out = in

\* The mapping b, a under a tag.
TaggedUnsorted == Tagged(Tag, Unsorted)

\* The mapping b, a as a key.
UnsortedKey == Unsorted

\* C26: sort_value returns every Null, Bool, Number, String and Tagged value
\* as given; it goes only into the values of mappings and the elements of
\* sequences, so the inner value of a Tagged and the keys of a mapping are
\* as given.
C26_PassThrough ==
  pc = "sorted" => PassedThrough(doc, sorted)

\* Canonicalization moved the entries around a tagged unsorted mapping, or
\* the entries whose keys include an unsorted mapping, and left these.
C26_Witness ==
  /\ pc = "sorted"
  /\ sorted # doc
  /\ doc.kind = "Mapping"
  /\ \/ /\ Len(doc.entries) = 2
        /\ doc.entries[1][2] = Mapping(<< <<Str(<<"t">>), TaggedUnsorted>> >>)
        /\ sorted.entries[2][2] = Mapping(<< <<Str(<<"t">>), TaggedUnsorted>> >>)
     \/ /\ Len(doc.entries) = 3
        /\ doc.entries[3][1] = UnsortedKey
        /\ sorted.entries[1][1] = UnsortedKey

\* C28: sort_value(sort_value(v)) = sort_value(v) for every tree v, the order
\* of the entries of every mapping included, also where keys have equal sort
\* keys.
C28_CanonicalizeIdempotent ==
  pc = "sorted twice" => resorted = sorted

\* A mapping with the keys 5 and "5", of one sort key, canonicalized into
\* another order and canonicalized again.
C28_Witness ==
  /\ pc = "sorted twice"
  /\ doc.kind = "Mapping"
  /\ {Five, FiveText} \subseteq KeysOf(doc.entries)
  /\ sorted # doc
  /\ resorted = sorted

\* ---- nested layout --------------------------------------------------------
\* No value of the tree is tagged.
RECURSIVE NoTags(_)
NoTags(value) ==
  CASE value.kind = "Mapping" -> \A i \in 1..Len(value.entries) : NoTags(value.entries[i][2])
    [] value.kind = "Sequence" -> \A i \in 1..Len(value.items) : NoTags(value.items[i])
    [] OTHER -> value.kind # "Tagged"

IsCollection(value) == value.kind \in {"Mapping", "Sequence"}

\* A non-empty mapping or sequence is an element of a sequence of the tree.
RECURSIVE HasCollectionItem(_)
HasCollectionItem(value) ==
  CASE value.kind = "Mapping" ->
         \E i \in 1..Len(value.entries) : HasCollectionItem(value.entries[i][2])
    [] value.kind = "Sequence" ->
         \E i \in 1..Len(value.items) :
           \/ value.items[i] \notin {Mapping(<<>>), Sequence(<<>>)} /\ IsCollection(value.items[i])
           \/ HasCollectionItem(value.items[i])
    [] OTHER -> FALSE

\* The layout of the text: the "entries" of a mapping and the "items" of a
\* sequence written at indentation n, a "value" after the colon of a key at
\* indentation n, an "item" after the dash of an element at indentation n.
RECURSIVE Layout(_, _, _)
Layout(what, x, n) ==
  CASE what = "entries" ->
         spaces(n) \o write_key(x[1][1]) \o <<":">> \o Layout("value", x[1][2], n)
           \o (IF Len(x) > 1 THEN <<"LF">> \o Layout("entries", Tail(x), n) ELSE <<>>)
    [] what = "items" ->
         spaces(n) \o <<"-">> \o Layout("item", x[1], n)
           \o (IF Len(x) > 1 THEN <<"LF">> \o Layout("items", Tail(x), n) ELSE <<>>)
    [] what = "item" /\ x.kind = "Mapping" /\ x.entries # <<>> ->
         <<" ">> \o write_key(x.entries[1][1]) \o <<":">> \o Layout("value", x.entries[1][2], n + 2)
           \o (IF Len(x.entries) > 1
                 THEN <<"LF">> \o Layout("entries", Tail(x.entries), n + 2) ELSE <<>>)
    [] OTHER ->
         CASE x = Mapping(<<>>) -> <<" ", "{", "}">>
           [] x = Sequence(<<>>) -> <<" ", "[", "]">>
           [] x.kind = "Mapping" /\ x # Mapping(<<>>) -> <<"LF">> \o Layout("entries", x.entries, n + 2)
           [] x.kind = "Sequence" /\ x # Sequence(<<>>) -> <<"LF">> \o Layout("items", x.items, n + 2)
           [] x.kind = "String" /\ should_use_literal_block(x.text) ->
                <<" ", "|", "-", "LF">> \o Indented(x.text, n + 2)
           [] OTHER -> <<" ">> \o write_scalar(x)

\* C23: under a root mapping at indentation 0, the entry lines of a mapping at
\* nesting depth d begin with 2*d spaces; a non-empty mapping or sequence that
\* is the value of a key is written from the next line on at the key's
\* indentation + 2; an empty one is written as ` {}` or ` []` on the line of
\* its key or dash; an empty root mapping is `{}` and a line feed.
C23_NestedLayout ==
  pc = "emitted" /\ sorted.kind = "Mapping" /\ NoTags(sorted) /\ ~HasCollectionItem(sorted)
    => emitted.text
         = (IF sorted.entries = <<>> THEN <<"{", "}">> ELSE Layout("entries", sorted.entries, 0))
             \o <<"LF">>

\* The text of a: null, z: {a: {a: 2, b: 1}, b: false}.
C23_Witness ==
  /\ pc = "emitted"
  /\ doc = Wrap("first", Wrap("last", Unsorted))
  /\ emitted.text
       = <<"a", ":", " ", "n", "u", "l", "l", "LF", "z", ":", "LF", " ", " ", "a", ":", "LF", " ", " ", " ", " ", "a", ":", " ", "2", "LF", " ", " ", " ", " ", "b", ":", " ", "1", "LF", " ", " ", "b", ":", " ", "f", "a", "l", "s", "e", "LF">>

\* C24: a non-empty mapping that is an element of a sequence written at
\* indentation n has its first entry on the line of the dash and every later
\* entry on a line of its own at indentation n + 2, with the collections and
\* block literals that are values of its entries indented from n + 2; a
\* non-empty sequence that is an element is written after a bare dash, from
\* the next line on, at indentation n + 2.
C24_SequenceElementLayout ==
  pc = "emitted" /\ IsCollection(sorted) /\ NoTags(sorted) /\ HasCollectionItem(sorted)
    => emitted.text
         = (IF sorted.kind = "Mapping" THEN Layout("entries", sorted.entries, 0)
            ELSE Layout("items", sorted.items, 2))
             \o <<"LF">>

\* The text of a: [z, {a: 2, b: 1}, a], b: false.
C24_Witness ==
  /\ pc = "emitted"
  /\ doc = Wrap("last", Wrap("middle", Unsorted))
  /\ emitted.text
       = <<"a", ":", "LF", " ", " ", "-", " ", "z", "LF", " ", " ", "-", " ", "a", ":", " ", "2", "LF", " ", " ", " ", " ", "b", ":", " ", "1", "LF", " ", " ", "-", " ", "a", "LF", "b", ":", " ", "f", "a", "l", "s", "e", "LF">>

\* C27: emit_yaml of a non-empty sequence writes every element line at
\* indentation 2, one level deeper than the same sequence written at
\* indentation 0; a mapping root is written at indentation 0.
C27_BareSequenceRoot ==
  pc = "emitted"
    => /\ sorted.kind = "Sequence" /\ sorted.items # <<>> /\ NoTags(sorted)
            => /\ emitted.text = Layout("items", sorted.items, 2) \o <<"LF">>
               /\ emitted.text # Layout("items", sorted.items, 0) \o <<"LF">>
               /\ SubSeq(emitted.text, 1, 3) = <<" ", " ", "-">>
       /\ sorted.kind = "Mapping" /\ sorted.entries # <<>>
            => starts_with(emitted.text, write_key(sorted.entries[1][1]) \o <<":">>)

\* The text of the root sequence [a, b].
C27_Witness ==
  /\ pc = "emitted"
  /\ sorted = Sequence(<<Str(<<"a">>), Str(<<"b">>)>>)
  /\ emitted.text = <<" ", " ", "-", " ", "a", "LF", " ", " ", "-", " ", "b", "LF">>

\* ---- keys -----------------------------------------------------------------
\* A mapping of the one entry key: 1 with a scalar key.
IsScalarKeyDoc(d) ==
  /\ d.kind = "Mapping" /\ Len(d.entries) = 1 /\ d.entries[1][2] = Integer(1)
  /\ d.entries[1][1].kind \in {"String", "Null", "Bool", "Number"}

\* The text of the entry line before its `: 1`.
KeyText(text) == SubSeq(text, 1, Len(text) - 4)

\* C29: a String key is emitted plain or as a double-quoted escaped scalar,
\* never as a `|-` literal block, also when its text is block-eligible; Null,
\* Bool and Number keys are emitted as their literal text; so the text from
\* the start of the entry line to its colon holds no line feed.
C29_KeysOnOneLine ==
  pc = "emitted" /\ IsScalarKeyDoc(sorted)
    => LET key == sorted.entries[1][1]
           head == KeyText(emitted.text)
       IN /\ emitted.text = head \o <<":", " ", "1", "LF">>
          /\ \A i \in 1..Len(head) : head[i] # "LF"
          /\ key.kind = "String" => head = key.text \/ IsDoubleQuoted(head)
          /\ key.kind = "String" /\ key.text # <<>> /\ BlockEligible(key.text)
               => IsDoubleQuoted(head) /\ ~starts_with(head, <<"|", "-">>)
          /\ key.kind = "Null" => head = <<"n", "u", "l", "l">>
          /\ key.kind = "Bool"
               => head = (IF key.b THEN <<"t", "r", "u", "e">> ELSE <<"f", "a", "l", "s", "e">>)
          /\ key.kind = "Number" => head = number_to_string(key)

\* The block-eligible key of the two lines l1 and l2, emitted in double quotes
\* with the line feed escaped.
C29_Witness ==
  /\ pc = "emitted"
  /\ sorted = AsKey(Str(<<"l", "1", "LF", "l", "2">>))
  /\ emitted.text = <<"\"", "l", "1", "\\", "n", "l", "2", "\"", ":", " ", "1", "LF">>
=============================================================================
